---- MODULE Spec2Model ----
(***************************************************************************)
(* Model of the procedural level generator of the platformer               *)
(* (world/loader.py): the movement envelope, the grid generator            *)
(* load_demo_level and the reachability validator _reachable_validator;    *)
(* of the flow field (world/pathfield.py); and of a frame of Level.update  *)
(* (world/level.py) with its enemy separation pass and the vertical step   *)
(* of the bodies it updates; and of the movement of the agents,            *)
(* Player.update (entities/player.py) and Enemy.update                     *)
(* (entities/enemy.py), call by call.  Further sections model the solid    *)
(* query of the tile map (world/tilemap.py), Player._move_and_collide,     *)
(* runs of Player.update, an agent following the flow field, the health    *)
(* of the player over the frames of Level.update, and the wave manager     *)
(* (world/waves.py).                                                       *)
(*                                                                         *)
(* Coordinates are the source's: cell (x, y) is column x of row y, both    *)
(* counted from 0, row 0 on top.  A grid is a function                     *)
(* [0..rows-1 -> [0..cols-1 -> tile]], indexed grid[y][x] as in the source.*)
(***************************************************************************)
EXTENDS Integers, Sequences, FiniteSets, TLC

VARIABLES
    phys,        \* <<gravity, jump speed, run speed>> the envelope is derived from
    env,         \* the derived movement envelope (a record), or NoEnv
    cols, rows,  \* extent of the grid
    pc,          \* position in load_demo_level / _reachable_validator ("raised": left by an exception)
    attempt,     \* loop variable of "for attempt in range(60)"
    fails,       \* number of attempts the validator rejected so far
    rng,         \* state of the attempt's random generator
    biome,       \* the biome tuple chosen for the attempt
    grid,        \* the grid under construction / under validation
    rooms,       \* list of (x0, y0, w, h)
    todo,        \* iterations left of the running loop (or its index)
    main_path,   \* list of (row, x0, x1) of the critical path
    spawn,       \* (spawn_x, spawn_y)
    safety,      \* iteration guard of the critical-path loop
    tries,       \* candidates drawn by the last critical-path step
    forced,      \* TRUE iff the last critical-path step used the far-side placement
    result,      \* the grid returned by load_demo_level
    fallback,    \* TRUE iff the returned grid is the fallback grid
    goal,        \* goal_y_max of the validator call
    q,           \* the validator's queue
    visited,     \* the validator's visited set
    accepted,    \* edges yielded by neighbors() so far
    verdict,     \* "none", "true" or "false": the validator's return value
    dist,        \* FlowField.dist: NoDist or [y -> [x -> distance or -1]]
    target_tile, \* FlowField.target_tile: NoTile or <<tx, ty>>
    valid,       \* FlowField.valid
    rebuilt,     \* how the last call of rebuild ended: "never", "ok" or "failed"
    req,         \* the grid-clamped cell the last call of rebuild was asked for
    query,       \* the world position of the last call of direction_at_world
    dir,         \* the vector that call returned (in 1/Unit)
    dt_in,       \* the dt Level.update was called with (in ticks of 1/600 s)
    dt,          \* the dt Level.update hands on
    flow_timer,  \* Level.flow_timer (in ticks)
    player,      \* centre x of the player's rect (px)
    flow_src,    \* the position the frame's rebuild was given, and whether the player had moved
    steps,       \* the steps the running frame has taken, in order
    enemies,     \* Level.enemies: list of records (pos in 1/Sub px)
    buckets,     \* the bucket map of _build_enemy_buckets: list of <<key, list of indices>>
    tested,      \* the pairs the last separation pass tested, in order
    before,      \* the enemy list as it was when each separation pass began
    frame,       \* the number of calls of Level.update that have ended
    kin,         \* one kinematic step of a body against a one-tile solid
    pl,          \* the Player object (a record of its fields), or <<>>
    twin,        \* a second Player, a copy of pl as it was before the last call
    keys,        \* pygame's keyboard state: the move axis the pressed keys give
    act,         \* the last call of update: its arguments and what it did
    en,          \* the Enemy object (a record of its fields), or <<>>
    tm,          \* a Tilemap and the last call of get_solid_rects_near, or <<>>
    mc,          \* a Player and the last call of _move_and_collide, or <<>>
    run,         \* a Player updated call after call, and what it did since it last stood, or <<>>
    walk,        \* an agent that follows the flow field cell by cell, or <<>>
    hp,          \* the player's health, its power-up stacks and the frame's position, or <<>>
    wave         \* the WaveManager and what its last update returned, or <<>>

vars == <<phys, env, cols, rows, pc, attempt, fails, rng, biome, grid, rooms,
          todo, main_path, spawn, safety, tries, forced, result, fallback,
          goal, q, visited, accepted, verdict,
          dist, target_tile, valid, rebuilt, req, query, dir,
          dt_in, dt, flow_timer, player, flow_src, steps, enemies, buckets,
          tested, before, frame, kin, pl, twin, keys, act, en,
          tm, mc, run, walk, hp, wave>>

flowVars == <<dist, target_tile, valid, rebuilt, req, query, dir>>

agentVars == <<pl, twin, keys, act, en>>

lateVars == <<tm, mc, run, walk, hp, wave>>

levelVars == <<dt_in, dt, flow_timer, player, flow_src, steps, enemies,
               buckets, tested, before, frame>>

NoDist == <<>>
NoTile == <<>>

\* the flow field as FlowField.__init__ leaves it (pathfield.py 24-26)
FlowIdle ==
    /\ dist = NoDist
    /\ target_tile = NoTile
    /\ valid = FALSE
    /\ rebuilt = "never"
    /\ req = NoTile
    /\ query = <<0, 0>>
    /\ dir = <<0, 0>>

\* the level before its first frame (level.py 58, 70)
LevelIdle ==
    /\ dt_in = 0
    /\ dt = 0
    /\ flow_timer = 0
    /\ player = 0
    /\ flow_src = <<>>
    /\ steps = <<>>
    /\ enemies = <<>>
    /\ buckets = <<>>
    /\ tested = <<>>
    /\ before = <<>>
    /\ frame = 0

KinIdle == kin = <<>>

AgentIdle ==
    /\ pl = <<>>
    /\ twin = <<>>
    /\ keys = 0
    /\ act = <<>>
    /\ en = <<>>

LateIdle ==
    /\ tm = <<>>
    /\ mc = <<>>
    /\ run = <<>>
    /\ walk = <<>>
    /\ hp = <<>>
    /\ wave = <<>>

Max(a, b) == IF a >= b THEN a ELSE b
Min(a, b) == IF a <= b THEN a ELSE b
Abs(a) == IF a < 0 THEN -a ELSE a
Range(s) == {s[i] : i \in DOMAIN s}

(***************************************************************************)
(* core/settings.py                                                        *)
(***************************************************************************)
TILE_SIZE == 48
GRAVITY == 2600
JUMP_SPEED == 820
MOVE_SPEED == 380

(***************************************************************************)
(* Movement envelope (loader.py 17-22, 139-148).  The source computes in   *)
(* floats; here every quotient is kept as an exact fraction p/q and        *)
(* rounded the way the source rounds it: round() is round-half-to-even,    *)
(* int() truncates.                                                        *)
(***************************************************************************)
\* round(p / d) of Python 3 for p >= 0, d > 0
RoundHalfEven(p, d) ==
    LET f == p \div d
        r2 == 2 * (p % d)
    IN  IF r2 < d THEN f
        ELSE IF r2 > d THEN f + 1
        ELSE IF f % 2 = 0 THEN f ELSE f + 1

\* int(p / d) for d > 0: the fraction is cut off toward zero
IntTrunc(p, d) == IF p >= 0 THEN p \div d ELSE -((-p) \div d)

\* _single_jump_height_px as the fraction <<numerator, denominator>>
SingleJumpHeightPx(ph) == <<ph[2] * ph[2], 2 * ph[1]>>

\* _time_to_apex as a fraction
TimeToApex(ph) == <<ph[2], ph[1]>>

\* a faulty variant of FloorAt: the floor is not applied
FloorLowMut(lo, v) == v
\* max(lo, v): the floor the source puts under every derived bound
FloorAt(lo, v) == Max(lo, v)

Envelope(ph) ==
    LET h1 == SingleJumpHeightPx(ph)
        ta == TimeToApex(ph)
        mn == FloorAt(1, RoundHalfEven(3 * h1[1], 4 * h1[2] * TILE_SIZE))
        mx == FloorAt(mn, RoundHalfEven(3 * h1[1], 2 * h1[2] * TILE_SIZE))
        ap == FloorAt(1, RoundHalfEven(h1[1], h1[2] * TILE_SIZE))
        ds == FloorAt(3, IntTrunc(ph[3] * 2 * ta[1], ta[2] * TILE_SIZE))
        dd == FloorAt(ds + 2, IntTrunc(ph[3] * 4 * ta[1], ta[2] * TILE_SIZE))
    IN  [h1 |-> h1, min_gap_tiles |-> mn, max_gap_tiles |-> mx,
         approx_single_h_tiles |-> ap, max_dx_single |-> ds,
         max_dx_double |-> dd]

NoEnv == [h1 |-> <<0, 1>>, min_gap_tiles |-> 0, max_gap_tiles |-> 0,
          approx_single_h_tiles |-> 0, max_dx_single |-> 0,
          max_dx_double |-> 0]

(***************************************************************************)
(* Tiles (loader.py 8-34)                                                  *)
(***************************************************************************)
IsSolid(ch) == ch \in {"#", "C", "M"}
IsEmpty(ch) == ch \in {".", "P", "^"}

\* all cells in the order "for y ... for x ..."
CellSeq == [i \in 1..(rows * cols) |-> <<(i - 1) % cols, (i - 1) \div cols>>]

\* _place_rect_solid: cells outside the grid are skipped
PlaceRectSolid(g, x0, y0, w, h, ch) ==
    [y \in 0..(rows - 1) |-> [x \in 0..(cols - 1) |->
        IF y0 <= y /\ y < y0 + h /\ x0 <= x /\ x < x0 + w THEN ch ELSE g[y][x]]]

\* _carve_rect_empty
CarveRectEmpty(g, x0, y0, w, h) == PlaceRectSolid(g, x0, y0, w, h, ".")

\* the (x0, x1) _place_platform returns: the clamped, half-open column span
PlatformSpan(x0, length) ==
    LET a == Max(1, Min(cols - 2, x0))
    IN  <<a, Max(a + 2, Min(cols - 1, a + length))>>

\* _place_platform
PlacePlatform(g, x0, y, length, ch) ==
    LET sp == PlatformSpan(x0, length)
    IN  [g EXCEPT ![y] = [x \in 0..(cols - 1) |->
            IF sp[1] <= x /\ x < sp[2] THEN ch ELSE g[y][x]]]

(***************************************************************************)
(* Reachability validator (loader.py 68-135)                               *)
(***************************************************************************)
\* _top_surface_cells: the list of (x, y-1), in scan order
TopSurfaceCells(g) ==
    SelectSeq(CellSeq, LAMBDA c :
        /\ c[2] + 1 <= rows - 1
        /\ IsSolid(g[c[2] + 1][c[1]])
        /\ IsEmpty(g[c[2]][c[1]]))

Manhattan(a, b) == Abs(a[1] - b[1]) + Abs(a[2] - b[2])

\* the start cell: the first cell of tops with the least distance to s
NearestTop(tops, s) ==
    LET m == CHOOSE d \in {Manhattan(tops[i], s) : i \in DOMAIN tops} :
                 \A j \in DOMAIN tops : Manhattan(tops[j], s) >= d
        i == CHOOSE k \in DOMAIN tops :
                 /\ Manhattan(tops[k], s) = m
                 /\ \A j \in 1..(k - 1) : Manhattan(tops[j], s) # m
    IN  tops[i]

\* int(0.70 * min_gap_tiles) and int(1.20 * max_gap_tiles)
UpLow(e) == IntTrunc(7 * e.min_gap_tiles, 10)
UpHigh(e) == IntTrunc(12 * e.max_gap_tiles, 10)

\* max_dx of neighbors(): the double-jump reach iff dy exceeds one jump
MaxDxFor(e, dy) ==
    IF dy > e.approx_single_h_tiles THEN e.max_dx_double ELSE e.max_dx_single

\* a faulty variant of UpOk: the lower bound is not tested
UpOkNoLowMut(e, dy) == dy <= UpHigh(e)
\* the vertical test of neighbors() for a higher target (dy > 0)
UpOk(e, dy) == ~(dy < UpLow(e) \/ dy > UpHigh(e))

\* neighbors(ax, ay) yields b
Edge(e, a, b) ==
    LET dy == a[2] - b[2]
    IN  /\ b[2] >= Max(1, a[2] - (e.max_gap_tiles + 2))
        /\ b[2] < Min(rows - 1, a[2] + 6)
        /\ IF dy > 0 THEN UpOk(e, dy) ELSE Abs(dy) <= 5
        /\ Abs(b[1] - a[1]) <= MaxDxFor(e, dy)

\* neighbors(ax, ay), in the order it yields
Neighbors(e, tops, a) == SelectSeq(tops, LAMBDA b : Edge(e, a, b))

\* a faulty variant of GoalTest: the goal row itself does not count
GoalTestStrictMut(a, g) == a[2] < g
\* "if ay <= goal_y_max: return True"
GoalTest(a, g) == a[2] <= g

\* one iteration of "while q": st = [q, visited, verdict]
BfsStep(e, tops, g, st) ==
    IF st.q = <<>> THEN [st EXCEPT !.verdict = "false"]
    ELSE LET a == Head(st.q)
         IN  IF GoalTest(a, g) THEN [st EXCEPT !.verdict = "true"]
             ELSE LET nb == SelectSeq(Neighbors(e, tops, a),
                                      LAMBDA b : b \notin st.visited)
                  IN  [q |-> Tail(st.q) \o nb,
                       visited |-> st.visited \cup Range(nb),
                       verdict |-> "none"]

\* the state of the search before the first iteration
BfsStart(tops, s) ==
    LET st == NearestTop(tops, s)
    IN  [q |-> <<st>>, visited |-> {st}, verdict |-> "none"]

\* the cells the search visits when it never meets the goal: the least set
\* that holds S and is closed under neighbors()
RECURSIVE Visitable(_, _, _)
Visitable(e, tops, S) ==
    LET N == {b \in Range(tops) \ S : \E a \in S : Edge(e, a, b)}
    IN  IF N = {} THEN S ELSE Visitable(e, tops, S \cup N)

\* _reachable_validator: the value the search returns
ReachableValidator(g, s, gy, e) ==
    LET tops == TopSurfaceCells(g)
    IN  IF tops = <<>> THEN FALSE
        ELSE \E t \in Visitable(e, tops, {NearestTop(tops, s)}) : t[2] <= gy

(***************************************************************************)
(* The random generator of an attempt (loader.py 160).  random.Random is   *)
(* a deterministic generator whose stream is fixed by its seed; it is      *)
(* modelled by a small congruential generator.  Every draw steps the       *)
(* state once and is computed from the new state x.                        *)
(***************************************************************************)
RngModulus == 46337
RngMultiplier == 3125
Seeded(seed) == (seed % (RngModulus - 1)) + 1
RngNext(x) == (x * RngMultiplier) % RngModulus
\* rng.randint(a, b), a <= b
RandInt(x, a, b) == a + (x % (b - a + 1))
\* rng.random() in hundredths: rng.random() < p/100 iff Pct(x) < p
Pct(x) == x % 100
\* rng.choice(s)
Choice(x, s) == s[(x % Len(s)) + 1]

\* the seeds base_seed + attempt * 99991 the attempts are run with are drawn
\* from this family
BaseSeed == 15
SeedStride == 99991
MaxSeedStep == 2
Seeds == {BaseSeed + k * SeedStride : k \in 0..MaxSeedStep}

(***************************************************************************)
(* load_demo_level (loader.py 138-342)                                     *)
(***************************************************************************)
\* (room_range, extra_range, spike_density, wall_density, intensity), the
\* densities in hundredths and the intensity in tenths
Biomes == <<
    [room_range |-> <<4, 6>>, extra_range |-> <<25, 40>>, spike |-> 6,
     wall |-> 55, intensity |-> 10],
    [room_range |-> <<3, 5>>, extra_range |-> <<35, 55>>, spike |-> 8,
     wall |-> 35, intensity |-> 12],
    [room_range |-> <<5, 8>>, extra_range |-> <<20, 35>>, spike |-> 5,
     wall |-> 75, intensity |-> 9],
    [room_range |-> <<6, 9>>, extra_range |-> <<45, 75>>, spike |-> 10,
     wall |-> 60, intensity |-> 14] >>

\* for attempt in range(60)
MaxAttempts == 60
\* while current_y > 4 and safety < 500
MaxSafety == 500
\* for _ in range(160)
MaxCandidates == 160
\* goal_y_max = 4 of the generator's validator call
GoalRow == 4

\* the grid every attempt starts from: side walls and a two-row ground band
BaseGrid ==
    [y \in 0..(rows - 1) |-> [x \in 0..(cols - 1) |->
        IF x = 0 \/ x = cols - 1 \/ y >= rows - 2 THEN "#" ELSE "."]]

\* platform_max_len = int(12 * intensity)
PlatformMaxLen(b) == IntTrunc(12 * b.intensity, 10)

\* one iteration of the room loop: r is the generator state before it
RoomStep(g, r) ==
    LET r1 == RngNext(r)
        w == RandInt(r1, 14, 22)
        r2 == RngNext(r1)
        h == RandInt(r2, 8, 12)
        r3 == RngNext(r2)
        x0 == RandInt(r3, 2, cols - w - 2)
        r4 == RngNext(r3)
        y0 == RandInt(r4, 2, rows - h - 4)
        g1 == CarveRectEmpty(PlaceRectSolid(g, x0, y0, w, h, "#"),
                             x0 + 1, y0 + 1, w - 2, h - 2)
        floor_y == y0 + h - 2
        r5 == RngNext(r4)
        plat_len == RandInt(r5, Max(6, w - 10), w - 2)
        r6 == RngNext(r5)
        plat_x == x0 + RandInt(r6, 1, Max(1, w - plat_len - 1))
    IN  [grid |-> PlacePlatform(g1, plat_x, floor_y, plat_len, "#"),
         room |-> <<x0, y0, w, h>>, rng |-> r6]

\* lines 177-180: random.randint raises ValueError when its range is empty,
\* which the ranges of x0 and y0 are on a grid too small for the room drawn
RoomRaises(r) ==
    LET r1 == RngNext(r)
        w == RandInt(r1, 14, 22)
        r2 == RngNext(r1)
        h == RandInt(r2, 8, 12)
    IN  cols - w - 2 < 2 \/ rows - h - 4 < 2

\* one iteration of the door loop for rooms a and b
DoorStep(g, r, a, b) ==
    LET lo == Max(a[2] + 2, b[2] + 2)
        hi == Min(a[2] + a[4] - 3, b[2] + b[4] - 3)
        r1 == RngNext(r)
        door_y == RandInt(r1, lo, hi)
        ax0 == a[1] + a[3] - 1
        bx0 == b[1]
        ax == Min(ax0, bx0)
        bx == Max(ax0, bx0)
    IN  IF lo > hi THEN [grid |-> g, rng |-> r]
        ELSE [grid |-> [y \in 0..(rows - 1) |-> [x \in 0..(cols - 1) |->
                  IF /\ ax <= x /\ x <= bx
                     /\ 1 <= x /\ x <= cols - 2
                     /\ 1 <= door_y /\ door_y <= rows - 3
                     /\ door_y - 1 <= y /\ y <= door_y + 1
                  THEN "." ELSE g[y][x]]],
              rng |-> r1]

\* the candidate test of the critical path: overlap_ratio > max_overlap_ratio
OverlapTooBig(cand_x0, cand_x1, cur_x0, cur_x1) ==
    LET ov == Max(0, Min(cand_x1, cur_x1) - Max(cand_x0, cur_x0))
    IN  10 * ov > 3 * Max(1, cur_x1 - cur_x0)

\* RngMultiplier^k modulo RngModulus
RECURSIVE RngPower(_)
RngPower(k) ==
    IF k = 0 THEN 1
    ELSE LET h == RngPower(k \div 2)
         IN  (((h * h) % RngModulus) * (IF k % 2 = 1 THEN RngMultiplier ELSE 1))
                 % RngModulus

\* the generator state after k further draws
RngAdvance(x, k) == (x * RngPower(k)) % RngModulus

\* cand_x0 of the candidate drawn with generator output x
CandX0(x, below_center, max_dx, length) ==
    LET dx == RandInt(x, -max_dx, max_dx)
        cand_center == below_center + dx
    IN  Max(2, Min(cols - (length + 3), cand_center - (length \div 2)))

\* TRUE iff the i-th candidate drawn after generator state r is accepted
CandAccepted(r, i, below_center, max_dx, length, cur_x0, cur_x1) ==
    LET c0 == CandX0(RngAdvance(r, i), below_center, max_dx, length)
    IN  ~OverlapTooBig(c0, c0 + length, cur_x0, cur_x1)

\* the candidate loop "for _ in range(160)": the first candidate that passes
\* the overlap test ends it
CandLoop(r, below_center, max_dx, length, cur_x0, cur_x1) ==
    LET good == {i \in 1..MaxCandidates :
                    CandAccepted(r, i, below_center, max_dx, length,
                                 cur_x0, cur_x1)}
        n == CHOOSE i \in good : \A j \in good : i <= j
    IN  IF good = {}
        THEN [found |-> FALSE, x0 |-> 0, rng |-> RngAdvance(r, MaxCandidates),
              tries |-> MaxCandidates]
        ELSE [found |-> TRUE,
              x0 |-> CandX0(RngAdvance(r, n), below_center, max_dx, length),
              rng |-> RngAdvance(r, n), tries |-> n]

\* the forced far-side placement taken when no candidate was accepted
FarSide(r, below_center, length) ==
    LET r1 == RngNext(r)
    IN  [x0 |-> IF below_center < cols \div 2
                THEN RandInt(r1, cols \div 2, cols - (length + 3))
                ELSE RandInt(r1, 2, Max(3, cols \div 2 - (length + 2))),
         rng |-> r1]

\* a faulty variant of GapDraw: gaps up to max_gap_tiles + 2
GapDrawWideMut(r, e) == RandInt(r, e.min_gap_tiles, e.max_gap_tiles + 2)
\* gap_tiles = rng.randint(min_gap_tiles, max_gap_tiles)
GapDraw(r, e) == RandInt(r, e.min_gap_tiles, e.max_gap_tiles)

\* max_dx of the critical path for a gap
PathMaxDx(e, gap_tiles) ==
    IF gap_tiles > e.approx_single_h_tiles THEN e.max_dx_double
    ELSE e.max_dx_single

\* one iteration of the extra-platform loop
ExtraStep(g, r, b) ==
    LET r1 == RngNext(r)
        y == RandInt(r1, 2, rows - 6)
        r2 == RngNext(r1)
        length == RandInt(r2, 3, IntTrunc(10 * b.intensity, 10))
        r3 == RngNext(r2)
        x0 == RandInt(r3, 2, cols - (length + 3))
        r4 == RngNext(r3)
        ch == IF Pct(r4) < 10 THEN "C" ELSE IF Pct(r4) < 16 THEN "M" ELSE "#"
    IN  [grid |-> PlacePlatform(g, x0, y, length, ch), rng |-> r4]

\* the cells a wall column writes: rows y0..y1 without the doorway gap
WallRows(y, y0, y1, has_gap, gap_y, gap_h) ==
    /\ y0 <= y /\ y <= y1
    /\ ~(has_gap /\ gap_y <= y /\ y < gap_y + gap_h)

\* one iteration of the wall/column loop
WallStep(g, r, path) ==
    LET r1 == RngNext(r)
        x == RandInt(r1, 4, cols - 5)
        r2 == RngNext(r1)
        y0 == RandInt(r2, 2, rows \div 2)
        r3 == RngNext(r2)
        y1 == RandInt(r3, rows \div 2, rows - 4)
        r4 == RngNext(r3)
        has_gap == path # <<>> /\ Pct(r4) < 90
        r5 == RngNext(r4)
        py == Choice(r5, path)[1]
        r6 == RngNext(r5)
        gap_y == Max(2, Min(rows - 7, py - RandInt(r6, 0, 2)))
        r7 == RngNext(IF has_gap THEN r6 ELSE r4)
        gap_h == RandInt(r7, 3, 5)
        r8 == RngNext(r7)
        second == Pct(r8) < 35
        r9 == RngNext(r8)
        xx == x + Choice(r9, <<-1, 1>>)
    IN  [grid |-> [y \in 0..(rows - 1) |-> [c \in 0..(cols - 1) |->
            IF /\ WallRows(y, y0, y1, has_gap, gap_y, gap_h)
               /\ \/ c = x
                  \/ second /\ c = xx /\ 2 <= xx /\ xx <= cols - 3
            THEN "#" ELSE g[y][c]]],
         rng |-> IF second THEN r9 ELSE r8]

\* a faulty variant of SpikeSkip: no cell is skipped
SpikeSkipNoneMut(x, y, s) == FALSE
\* "avoid spawn neighborhood": the test that skips cell (x, y)
SpikeSkip(x, y, s) == (x - s[1]) * (x - s[1]) + (y - s[2]) * (y - s[2]) < 25

\* the cells (x, y) at which the spike loop calls rng.random(), in the order
\* it scans them.  A spike replaces an empty tile by an empty tile, so the
\* tests of later cells read the same values before and during the loop.
SpikeSites(g, s) ==
    SelectSeq(CellSeq, LAMBDA c :
        /\ 2 <= c[2] /\ c[2] < rows - 3
        /\ 2 <= c[1] /\ c[1] < cols - 2
        /\ ~SpikeSkip(c[1], c[2], s)
        /\ IsSolid(g[c[2]][c[1]])
        /\ IsEmpty(g[c[2] - 1][c[1]]))

\* the spike loop: the k-th site gets the k-th draw
SpikePass(g, r, s, density) ==
    LET sites == SpikeSites(g, s)
        hit == {<<sites[k][1], sites[k][2] - 1>> :
                   k \in {i \in DOMAIN sites : Pct(RngAdvance(r, i)) < density}}
    IN  [grid |-> [y \in 0..(rows - 1) |-> [x \in 0..(cols - 1) |->
                      IF <<x, y>> \in hit THEN "^" ELSE g[y][x]]],
         rng |-> RngAdvance(r, Len(sites))]

\* the fallback grid
FallbackGrid ==
    [y \in 0..(rows - 1) |-> [x \in 0..(cols - 1) |->
        IF y >= rows - 2 THEN "#"
        ELSE IF y = rows - 5 /\ x = 4 THEN "P"
        ELSE IF /\ y = rows - 8
                /\ \E i \in 5..(cols - 6) :
                      /\ (i - 5) % 8 = 0
                      /\ PlatformSpan(i, 6)[1] <= x
                      /\ x < PlatformSpan(i, 6)[2]
             THEN "#" ELSE "."]]

(***************************************************************************)
(* The generator as a state machine: one action per step of                *)
(* load_demo_level, pc is the step the call is at.                         *)
(***************************************************************************)
\* the (cols, rows) the generator is called with
\* the grids load_demo_level is called on: the smallest one on which every
\* range handed to randint is non-empty, and one too narrow for any room
Dims == {<<37, 18>>, <<17, 18>>}

NoGrid == <<>>

Init ==
    /\ phys = <<GRAVITY, JUMP_SPEED, MOVE_SPEED>>
    /\ env = NoEnv
    /\ \E d \in Dims : cols = d[1] /\ rows = d[2]
    /\ pc = "start"
    /\ attempt = 0
    /\ fails = 0
    /\ rng = 0
    /\ biome = Biomes[1]
    /\ grid = NoGrid
    /\ rooms = <<>>
    /\ todo = 0
    /\ main_path = <<>>
    /\ spawn = <<0, 0>>
    /\ safety = 0
    /\ tries = 0
    /\ forced = FALSE
    /\ result = NoGrid
    /\ fallback = FALSE
    /\ goal = GoalRow
    /\ q = <<>>
    /\ visited = {}
    /\ accepted = {}
    /\ verdict = "none"
    /\ FlowIdle
    /\ LevelIdle
    /\ KinIdle
    /\ AgentIdle
    /\ LateIdle

validatorVars == <<goal, q, visited, accepted, verdict>>

\* lines 139-148: the envelope is derived from the physics constants
ComputeEnvelope ==
    /\ pc = "start"
    /\ env' = Envelope(phys)
    /\ pc' = "attempt"
    /\ UNCHANGED <<phys, cols, rows, attempt, fails, rng, biome, grid, rooms,
                   todo, main_path, spawn, safety, tries, forced, result,
                   fallback, validatorVars, flowVars, levelVars, kin, agentVars, lateVars>>

\* lines 159-174: seed the generator, choose the biome, lay the border and
\* the ground band, draw room_count
BeginAttempt ==
    /\ pc = "attempt"
    /\ attempt < MaxAttempts
    /\ \E seed \in Seeds :
          LET r1 == RngNext(Seeded(seed))
              b == Choice(r1, Biomes)
              r2 == RngNext(r1)
          IN  /\ biome' = b
              /\ todo' = RandInt(r2, b.room_range[1], b.room_range[2])
              /\ rng' = r2
    /\ grid' = BaseGrid
    /\ rooms' = <<>>
    /\ main_path' = <<>>
    /\ safety' = 0
    /\ tries' = 0
    /\ forced' = FALSE
    /\ pc' = "rooms"
    /\ UNCHANGED <<phys, env, cols, rows, attempt, fails, spawn, result,
                   fallback, validatorVars, flowVars, levelVars, kin, agentVars, lateVars>>

\* lines 176-189: one room; the ValueError of randint leaves the call
PlaceRoom ==
    /\ pc = "rooms"
    /\ todo > 0
    /\ IF RoomRaises(rng)
       THEN /\ pc' = "raised"
            /\ UNCHANGED <<grid, rng, rooms, todo>>
       ELSE /\ LET a == RoomStep(grid, rng)
               IN  /\ grid' = a.grid
                   /\ rng' = a.rng
                   /\ rooms' = Append(rooms, a.room)
            /\ todo' = IF todo > 1 THEN todo - 1 ELSE 0
            /\ pc' = IF todo > 1 THEN "rooms"
                     ELSE IF Len(rooms) + 1 > 1 THEN "doors" ELSE "first"
    /\ UNCHANGED <<phys, env, cols, rows, attempt, fails, biome, main_path,
                   spawn, safety, tries, forced, result, fallback,
                   validatorVars, flowVars, levelVars, kin, agentVars, lateVars>>

\* lines 192-214: the door between rooms[i] and rooms[i + 1], i = todo
PlaceDoor ==
    /\ pc = "doors"
    /\ LET a == DoorStep(grid, rng, rooms[todo + 1], rooms[todo + 2])
       IN  /\ grid' = a.grid
           /\ rng' = a.rng
    /\ todo' = todo + 1
    /\ pc' = IF todo + 1 < Len(rooms) - 1 THEN "doors" ELSE "first"
    /\ UNCHANGED <<phys, env, cols, rows, attempt, fails, biome, rooms,
                   main_path, spawn, safety, tries, forced, result, fallback,
                   validatorVars, flowVars, levelVars, kin, agentVars, lateVars>>

\* lines 217-231: the first platform of the critical path and the spawn cell
FirstPlatform ==
    /\ pc = "first"
    /\ LET current_y == rows - 4
           r1 == RngNext(rng)
           length == RandInt(r1, 8, Max(8, PlatformMaxLen(biome)))
           r2 == RngNext(r1)
           x0 == RandInt(r2, 3, cols - (length + 4))
           sp == PlatformSpan(x0, length)
           spawn_x == Min(cols - 3, sp[1] + 2)
           spawn_y == Max(1, current_y - 1)
       IN  /\ grid' = [PlacePlatform(grid, x0, current_y, length, "#")
                          EXCEPT ![spawn_y][spawn_x] = "P"]
           /\ spawn' = <<spawn_x, spawn_y>>
           /\ main_path' = << <<current_y, sp[1], sp[2]>> >>
           /\ rng' = r2
    /\ safety' = 0
    /\ pc' = "path"
    /\ UNCHANGED <<phys, env, cols, rows, attempt, fails, biome, rooms, todo,
                   tries, forced, result, fallback, validatorVars, flowVars, levelVars, kin, agentVars, lateVars>>

\* the loop condition of line 233
PathGoesOn == main_path[Len(main_path)][1] > 4 /\ safety < MaxSafety

\* lines 233-273: one iteration of the critical-path loop
PathStep ==
    /\ pc = "path"
    /\ PathGoesOn
    /\ safety' = safety + 1
    /\ LET cur == main_path[Len(main_path)]
           r1 == RngNext(rng)
           gap_tiles == GapDraw(r1, env)
           next_y == cur[1] - gap_tiles
           r2 == RngNext(r1)
           length == RandInt(r2, 4, Max(6, PlatformMaxLen(biome)))
           below_center == (cur[2] + cur[3]) \div 2
           c == CandLoop(r2, below_center, PathMaxDx(env, gap_tiles),
                         length, cur[2], cur[3])
           f == FarSide(c.rng, below_center, length)
           next_x0 == IF c.found THEN c.x0 ELSE f.x0
           sp == PlatformSpan(next_x0, length)
       IN  IF next_y < 2
           THEN /\ pc' = "pathdone"
                /\ rng' = r1
                /\ UNCHANGED <<grid, main_path, tries, forced>>
           ELSE /\ pc' = "path"
                /\ rng' = IF c.found THEN c.rng ELSE f.rng
                /\ grid' = PlacePlatform(grid, next_x0, next_y, length, "#")
                /\ main_path' = Append(main_path, <<next_y, sp[1], sp[2]>>)
                /\ tries' = c.tries
                /\ forced' = ~c.found
    /\ UNCHANGED <<phys, env, cols, rows, attempt, fails, biome, rooms, todo,
                   spawn, result, fallback, validatorVars, flowVars, levelVars, kin, agentVars, lateVars>>

\* line 276: the critical path is complete, draw extra_count
BeginExtras ==
    /\ pc \in {"path", "pathdone"}
    /\ pc = "path" => ~PathGoesOn
    /\ LET r1 == RngNext(rng)
       IN  /\ todo' = RandInt(r1, biome.extra_range[1], biome.extra_range[2])
           /\ rng' = r1
    /\ pc' = "extras"
    /\ UNCHANGED <<phys, env, cols, rows, attempt, fails, biome, grid, rooms,
                   main_path, spawn, safety, tries, forced, result, fallback,
                   validatorVars, flowVars, levelVars, kin, agentVars, lateVars>>

\* lines 277-283: one extra platform
ExtraPlatform ==
    /\ pc = "extras"
    /\ todo > 0
    /\ LET a == ExtraStep(grid, rng, biome)
       IN  /\ grid' = a.grid
           /\ rng' = a.rng
    /\ todo' = todo - 1
    /\ UNCHANGED <<phys, env, cols, rows, pc, attempt, fails, biome, rooms,
                   main_path, spawn, safety, tries, forced, result, fallback,
                   validatorVars, flowVars, levelVars, kin, agentVars, lateVars>>

\* line 286: draw col_count
BeginWalls ==
    /\ pc = "extras"
    /\ todo = 0
    /\ LET r1 == RngNext(rng)
       IN  /\ todo' = RandInt(r1, IntTrunc(6 * biome.wall, 100),
                              IntTrunc(14 * biome.wall, 100) + 2)
           /\ rng' = r1
    /\ pc' = "walls"
    /\ UNCHANGED <<phys, env, cols, rows, attempt, fails, biome, grid, rooms,
                   main_path, spawn, safety, tries, forced, result, fallback,
                   validatorVars, flowVars, levelVars, kin, agentVars, lateVars>>

\* lines 287-309: one wall column
WallColumn ==
    /\ pc = "walls"
    /\ todo > 0
    /\ LET a == WallStep(grid, rng, main_path)
       IN  /\ grid' = a.grid
           /\ rng' = a.rng
    /\ todo' = todo - 1
    /\ UNCHANGED <<phys, env, cols, rows, pc, attempt, fails, biome, rooms,
                   main_path, spawn, safety, tries, forced, result, fallback,
                   validatorVars, flowVars, levelVars, kin, agentVars, lateVars>>

\* lines 313-318: the spike pass
Spikes ==
    /\ pc = "walls"
    /\ todo = 0
    /\ LET a == SpikePass(grid, rng, spawn, biome.spike)
       IN  /\ grid' = a.grid
           /\ rng' = a.rng
    /\ pc' = "validate"
    /\ UNCHANGED <<phys, env, cols, rows, attempt, fails, biome, rooms, todo,
                   main_path, spawn, safety, tries, forced, result, fallback,
                   validatorVars, flowVars, levelVars, kin, agentVars, lateVars>>

\* lines 320-332: validate the attempt; return its grid if accepted
Validate ==
    /\ pc = "validate"
    /\ IF ReachableValidator(grid, spawn, GoalRow, env)
       THEN /\ result' = grid
            /\ pc' = "done"
            /\ UNCHANGED <<attempt, fails>>
       ELSE /\ attempt' = attempt + 1
            /\ fails' = fails + 1
            /\ pc' = "attempt"
            /\ UNCHANGED result
    /\ UNCHANGED <<phys, env, cols, rows, rng, biome, grid, rooms, todo,
                   main_path, spawn, safety, tries, forced, fallback,
                   validatorVars, flowVars, levelVars, kin, agentVars, lateVars>>

\* lines 334-342: every attempt was rejected, return the fallback grid
Fallback ==
    /\ pc = "attempt"
    /\ attempt >= MaxAttempts
    /\ result' = FallbackGrid
    /\ fallback' = TRUE
    /\ pc' = "done"
    /\ UNCHANGED <<phys, env, cols, rows, attempt, fails, rng, biome, grid,
                   rooms, todo, main_path, spawn, safety, tries, forced,
                   validatorVars, flowVars, levelVars, kin, agentVars, lateVars>>

Next ==
    \/ ComputeEnvelope
    \/ BeginAttempt
    \/ PlaceRoom
    \/ PlaceDoor
    \/ FirstPlatform
    \/ PathStep
    \/ BeginExtras
    \/ ExtraPlatform
    \/ BeginWalls
    \/ WallColumn
    \/ Spikes
    \/ Validate
    \/ Fallback

Spec == Init /\ [][Next]_vars

\* the call has ended: it returned a grid or raised
Halted == pc \in {"done", "raised"}

\* the interpreter keeps executing the call until it has ended: weak
\* fairness of Next, with "Next is disabled" written as Halted
FairSpec == Spec /\ ((<>[]Halted) \/ []<><<Next>>_vars)

(***************************************************************************)
(* The envelope as a function of the physics constants: the inputs are     *)
(* drawn from multiples of a quarter of the constants of settings.py.      *)
(***************************************************************************)
MaxPhysStep == 4

PhysInputs ==
    {<<(GRAVITY \div 4) * a, (JUMP_SPEED \div 4) * b, (MOVE_SPEED \div 4) * c>> :
        a \in 1..MaxPhysStep, b \in 1..MaxPhysStep, c \in 1..MaxPhysStep}

InitE ==
    /\ phys \in PhysInputs
    /\ env = NoEnv
    /\ \E d \in Dims : cols = d[1] /\ rows = d[2]
    /\ pc = "start"
    /\ attempt = 0
    /\ fails = 0
    /\ rng = 0
    /\ biome = Biomes[1]
    /\ grid = NoGrid
    /\ rooms = <<>>
    /\ todo = 0
    /\ main_path = <<>>
    /\ spawn = <<0, 0>>
    /\ safety = 0
    /\ tries = 0
    /\ forced = FALSE
    /\ result = NoGrid
    /\ fallback = FALSE
    /\ goal = GoalRow
    /\ q = <<>>
    /\ visited = {}
    /\ accepted = {}
    /\ verdict = "none"
    /\ FlowIdle
    /\ LevelIdle
    /\ KinIdle
    /\ AgentIdle
    /\ LateIdle

NextE == ComputeEnvelope

SpecE == InitE /\ [][NextE]_vars

(***************************************************************************)
(* _reachable_validator as a state machine of its own: called on every     *)
(* small grid with at most MaxSolids solid tiles, one action per iteration *)
(* of its loop.                                                            *)
(***************************************************************************)
VCols == 3
VRows == 6
MaxSolids == 3

\* the envelope of settings.py and two narrow ones
VEnvs ==
    {Envelope(<<GRAVITY, JUMP_SPEED, MOVE_SPEED>>),
     [h1 |-> <<1, 1>>, min_gap_tiles |-> 3, max_gap_tiles |-> 4,
      approx_single_h_tiles |-> 3, max_dx_single |-> 1, max_dx_double |-> 2],
     [h1 |-> <<1, 1>>, min_gap_tiles |-> 1, max_gap_tiles |-> 2,
      approx_single_h_tiles |-> 1, max_dx_single |-> 1, max_dx_double |-> 2]}

VSpawns == {<<0, VRows - 2>>}
VGoals == {2}

\* cell number n (from 1) of the small grid, in scan order
VCell(n) == <<(n - 1) % VCols, (n - 1) \div VCols>>

\* the sets of at most k cells
RECURSIVE VSolidSetsUpTo(_)
VSolidSetsUpTo(k) ==
    IF k = 0 THEN {{}}
    ELSE LET P == VSolidSetsUpTo(k - 1)
         IN  P \cup {s \cup {VCell(n)} : s \in P, n \in 1..(VCols * VRows)}

VSolidSets == VSolidSetsUpTo(MaxSolids)

VGrids ==
    {[y \in 0..(VRows - 1) |-> [x \in 0..(VCols - 1) |->
        IF <<x, y>> \in S THEN "#" ELSE "."]] : S \in VSolidSets}

InitV ==
    /\ phys = <<GRAVITY, JUMP_SPEED, MOVE_SPEED>>
    /\ env \in VEnvs
    /\ cols = VCols
    /\ rows = VRows
    /\ pc = "v_start"
    /\ attempt = 0
    /\ fails = 0
    /\ rng = 0
    /\ biome = Biomes[1]
    /\ grid \in VGrids
    /\ rooms = <<>>
    /\ todo = 0
    /\ main_path = <<>>
    /\ spawn \in VSpawns
    /\ safety = 0
    /\ tries = 0
    /\ forced = FALSE
    /\ result = NoGrid
    /\ fallback = FALSE
    /\ goal \in VGoals
    /\ q = <<>>
    /\ visited = {}
    /\ accepted = {}
    /\ verdict = "none"
    /\ FlowIdle
    /\ LevelIdle
    /\ KinIdle
    /\ AgentIdle
    /\ LateIdle

generatorVars == <<phys, env, cols, rows, attempt, fails, rng, biome, grid,
                   rooms, todo, main_path, spawn, safety, tries, forced,
                   result, fallback, goal>>

\* lines 81-104: collect the surface cells, choose the start cell
ValidatorStart ==
    /\ pc = "v_start"
    /\ LET tops == TopSurfaceCells(grid)
       IN  IF tops = <<>>
           THEN /\ verdict' = "false"
                /\ pc' = "v_done"
                /\ UNCHANGED <<q, visited>>
           ELSE /\ q' = BfsStart(tops, spawn).q
                /\ visited' = BfsStart(tops, spawn).visited
                /\ pc' = "v_bfs"
                /\ UNCHANGED verdict
    /\ UNCHANGED accepted
    /\ UNCHANGED <<generatorVars, flowVars, levelVars, kin, agentVars, lateVars>>

\* lines 126-135: one iteration of "while q", or its exit
ValidatorStep ==
    /\ pc = "v_bfs"
    /\ LET tops == TopSurfaceCells(grid)
           st == BfsStep(env, tops, goal,
                         [q |-> q, visited |-> visited, verdict |-> verdict])
       IN  /\ q' = st.q
           /\ visited' = st.visited
           /\ verdict' = st.verdict
           /\ pc' = IF st.verdict = "none" THEN "v_bfs" ELSE "v_done"
           /\ accepted' =
                 IF st.verdict = "none"
                 THEN accepted \cup
                      {<<Head(q), b>> : b \in Range(Neighbors(env, tops, Head(q)))}
                 ELSE accepted
    /\ UNCHANGED <<generatorVars, flowVars, levelVars, kin, agentVars, lateVars>>

NextV ==
    \/ ValidatorStart
    \/ ValidatorStep

SpecV == InitV /\ [][NextV]_vars

(***************************************************************************)
(* FlowField (world/pathfield.py): the distance field the enemies read.    *)
(* World positions are pixels; the tile of a position is its floor         *)
(* quotient by TILE_SIZE.                                                  *)
(***************************************************************************)
SOLID_CHARS == {"#", "C", "M"}

\* _is_blocked
IsBlocked(g, x, y) == g[y][x] \in SOLID_CHARS

\* 0 <= x < self.cols and 0 <= y < self.rows
InGrid(c, r, x, y) == 0 <= x /\ x < c /\ 0 <= y /\ y < r

\* radius=8 at the call of _find_nearest_open
SearchRadius == 8

\* a faulty variant of SearchRadii: only the outermost square is scanned
SearchRadiiOuterMut(radius) == {radius}

\* for r in range(1, radius + 1)
SearchRadii(radius) == 1..radius

\* the walkable cells of the grid among x-k..x+k, y-k..y+k
OpenInSquare(g, c, r, x, y, k) ==
    {p \in ((x - k)..(x + k)) \X ((y - k)..(y + k)) :
        InGrid(c, r, p[1], p[2]) /\ ~IsBlocked(g, p[1], p[2])}

\* the first cell of S in the order of "for oy ... for ox ..."
RowMajorFirst(S) ==
    CHOOSE p \in S : \A o \in S : p[2] < o[2] \/ (p[2] = o[2] /\ p[1] <= o[1])

\* _find_nearest_open: the squares are scanned in increasing radius, each
\* row by row, and the first walkable cell is returned; NoTile is None
FindNearestOpen(g, c, r, x, y, radius) ==
    LET hit == {k \in SearchRadii(radius) : OpenInSquare(g, c, r, x, y, k) # {}}
    IN  IF hit = {} THEN NoTile
        ELSE RowMajorFirst(OpenInSquare(g, c, r, x, y,
                                        CHOOSE k \in hit : \A j \in hit : k <= j))

\* a faulty variant of FreshDist: the field of the last rebuild is kept
KeepDistMut(c, r) ==
    IF dist = NoDist THEN [y \in 0..(r - 1) |-> [x \in 0..(c - 1) |-> -1]]
    ELSE dist

\* self.dist = [[-1] * self.cols for _ in range(self.rows)]
FreshDist(c, r) == [y \in 0..(r - 1) |-> [x \in 0..(c - 1) |-> -1]]

\* the 4-neighbourhood, in the order of the source
FlowNeighbors4(x, y) == <<<<x + 1, y>>, <<x - 1, y>>, <<x, y + 1>>, <<x, y - 1>>>>

\* the "for nx, ny in ..." loop of one dequeued cell of distance dd;
\* st is [d |-> the field, q |-> the queue]
RECURSIVE FlowExpand(_, _, _, _, _, _)
FlowExpand(g, c, r, st, nbrs, dd) ==
    IF nbrs = <<>> THEN st
    ELSE LET nx == Head(nbrs)[1]
             ny == Head(nbrs)[2]
             take == /\ InGrid(c, r, nx, ny)
                     /\ st.d[ny][nx] = -1
                     /\ ~IsBlocked(g, nx, ny)
             st2 == IF take
                    THEN [d |-> [st.d EXCEPT ![ny][nx] = dd + 1],
                          q |-> Append(st.q, Head(nbrs))]
                    ELSE st
         IN  FlowExpand(g, c, r, st2, Tail(nbrs), dd)

\* "while q": returns the field once the queue is empty
RECURSIVE FlowFill(_, _, _, _)
FlowFill(g, c, r, st) ==
    IF st.q = <<>> THEN st.d
    ELSE LET x == Head(st.q)[1]
             y == Head(st.q)[2]
         IN  FlowFill(g, c, r,
                      FlowExpand(g, c, r, [d |-> st.d, q |-> Tail(st.q)],
                                 FlowNeighbors4(x, y), st.d[y][x]))

\* a faulty variant of FailValid: a failed rebuild leaves valid as it was
FailValidKeptMut == valid

\* self.valid = False on the paths that give up
FailValid == FALSE

\* the tile of a world coordinate, clamped to the grid
ClampTile(n, w) == Max(0, Min(n - 1, w \div TILE_SIZE))

\* rebuild(target_world_pos): the fields of the FlowField after the call
\* (rebuilt and req record how the call ended and the cell it was asked for)
RebuildField(g, c, r, wx, wy) ==
    IF r = 0 \/ c = 0
    THEN [dist |-> dist, target_tile |-> target_tile, valid |-> FailValid,
          rebuilt |-> "failed", req |-> NoTile]
    ELSE LET tx == ClampTile(c, wx)
             ty == ClampTile(r, wy)
             found == IF IsBlocked(g, tx, ty)
                      THEN FindNearestOpen(g, c, r, tx, ty, SearchRadius)
                      ELSE <<tx, ty>>
         IN  IF found = NoTile
             THEN [dist |-> dist, target_tile |-> target_tile,
                   valid |-> FailValid, rebuilt |-> "failed",
                   req |-> <<tx, ty>>]
             ELSE [dist |-> FlowFill(g, c, r,
                                [d |-> [FreshDist(c, r)
                                           EXCEPT ![found[2]][found[1]] = 0],
                                 q |-> <<found>>]),
                   target_tile |-> found, valid |-> TRUE, rebuilt |-> "ok",
                   req |-> <<tx, ty>>]

\* vectors are kept in units of 1/Unit
Unit == 10000

\* a faulty variant of Normalize: best_dir is returned as it is
NormalizeRawMut(v) == <<v[1] * Unit, v[2] * Unit>>

\* Vector2.normalize() of an offset with components in -1..1
Normalize(v) ==
    IF v[1] # 0 /\ v[2] # 0 THEN <<v[1] * 7071, v[2] * 7071>>
    ELSE <<v[1] * Unit, v[2] * Unit>>

\* the offsets direction_at_world tries, in order
FlowNeighbors8 ==
    <<<<1, 0>>, <<-1, 0>>, <<0, 1>>, <<0, -1>>,
      <<1, 1>>, <<1, -1>>, <<-1, 1>>, <<-1, -1>>>>

\* a faulty variant of BestStart: the cell's own distance is not the bar
BestStartHighMut(cur) == cur + 2

\* best = cur
BestStart(cur) == cur

\* if nd >= 0 and nd < best
Better(nd, best) == nd >= 0 /\ nd < best

\* the "for dx, dy in neighbors" loop: returns best_dir
RECURSIVE Downhill(_, _, _, _, _, _, _, _)
Downhill(d, c, r, x, y, offs, best, best_dir) ==
    IF offs = <<>> THEN best_dir
    ELSE LET nx == x + Head(offs)[1]
             ny == y + Head(offs)[2]
         IN  IF InGrid(c, r, nx, ny) /\ Better(d[ny][nx], best)
             THEN Downhill(d, c, r, x, y, Tail(offs), d[ny][nx], Head(offs))
             ELSE Downhill(d, c, r, x, y, Tail(offs), best, best_dir)

\* direction_at_world(world_pos)
DirectionAtWorld(c, r, wx, wy) ==
    IF ~valid \/ dist = NoDist THEN <<0, 0>>
    ELSE LET x == wx \div TILE_SIZE
             y == wy \div TILE_SIZE
         IN  IF ~InGrid(c, r, x, y) THEN <<0, 0>>
             ELSE IF dist[y][x] < 0 THEN <<0, 0>>
             ELSE LET best_dir == Downhill(dist, c, r, x, y, FlowNeighbors8,
                                           BestStart(dist[y][x]), <<0, 0>>)
                  IN  IF best_dir = <<0, 0>> THEN <<0, 0>>
                      ELSE Normalize(best_dir)

(***************************************************************************)
(* The flow field as a state machine: a FlowField over a small grid, on    *)
(* which rebuild and direction_at_world are called in any order.  The      *)
(* grids are the small ones with at most FlowMaxSolids solid tiles, and    *)
(* the one-row strips that begin with a run of solid tiles, long enough    *)
(* for a target with no walkable cell within SearchRadius.                 *)
(***************************************************************************)
FlowMaxSolids == 2

\* the extents <<cols, rows>> of the small grids
FlowDims == {<<3, 3>>}

\* cell number n (from 1) of a grid of extent d, in scan order
FlowCell(d, n) == <<(n - 1) % d[1], (n - 1) \div d[1]>>

\* the sets of at most k cells
RECURSIVE FlowSolidSetsUpTo(_, _)
FlowSolidSetsUpTo(d, k) ==
    IF k = 0 THEN {{}}
    ELSE LET P == FlowSolidSetsUpTo(d, k - 1)
         IN  P \cup {s \cup {FlowCell(d, n)} : s \in P, n \in 1..(d[1] * d[2])}

SmallGrids ==
    UNION {{[y \in 0..(d[2] - 1) |-> [x \in 0..(d[1] - 1) |->
                IF <<x, y>> \in S THEN "#" ELSE "."]] :
              S \in FlowSolidSetsUpTo(d, FlowMaxSolids)} : d \in FlowDims}

StripLen == SearchRadius + 3

StripGrids ==
    {[y \in 0..0 |-> [x \in 0..(StripLen - 1) |->
        IF x < k THEN "M" ELSE "."]] : k \in 0..StripLen}

FlowGrids == SmallGrids \cup StripGrids

\* world coordinates along an axis of n tiles: the first and the last
\* pixel of every tile, and one pixel off either end
WorldCoords(n) ==
    {-1, n * TILE_SIZE} \cup
    {t * TILE_SIZE + o : t \in 0..(n - 1), o \in {0, TILE_SIZE - 1}}

\* the centre of every tile, and one pixel off either end
TargetCoords(n) ==
    {-1, n * TILE_SIZE} \cup {t * TILE_SIZE + TILE_SIZE \div 2 : t \in 0..(n - 1)}

InitF ==
    /\ phys = <<GRAVITY, JUMP_SPEED, MOVE_SPEED>>
    /\ env = NoEnv
    /\ grid \in FlowGrids
    /\ rows = Cardinality(DOMAIN grid)
    /\ cols = Cardinality(DOMAIN grid[0])
    /\ pc = "flow"
    /\ attempt = 0
    /\ fails = 0
    /\ rng = 0
    /\ biome = Biomes[1]
    /\ rooms = <<>>
    /\ todo = 0
    /\ main_path = <<>>
    /\ spawn = <<0, 0>>
    /\ safety = 0
    /\ tries = 0
    /\ forced = FALSE
    /\ result = NoGrid
    /\ fallback = FALSE
    /\ goal = GoalRow
    /\ q = <<>>
    /\ visited = {}
    /\ accepted = {}
    /\ verdict = "none"
    /\ FlowIdle
    /\ LevelIdle
    /\ KinIdle
    /\ AgentIdle
    /\ LateIdle

\* flow.rebuild(target_world_pos)
Rebuild ==
    /\ pc = "flow"
    /\ \E wx \in TargetCoords(cols), wy \in TargetCoords(rows) :
          \E f \in {RebuildField(grid, cols, rows, wx, wy)} :
              /\ dist' = f.dist
              /\ target_tile' = f.target_tile
              /\ valid' = f.valid
              /\ rebuilt' = f.rebuilt
              /\ req' = f.req
    /\ UNCHANGED <<query, dir>>
    /\ UNCHANGED <<generatorVars, validatorVars, pc, levelVars, kin, agentVars, lateVars>>

\* flow.direction_at_world(world_pos).  The call reads the field and
\* writes nothing, so the calls after it meet the FlowField the calls
\* before it met: a behaviour is a run of rebuilds and, last, the query
\* whose answer is looked at.
DirectionAt ==
    /\ pc = "flow"
    /\ \E wx \in WorldCoords(cols), wy \in WorldCoords(rows) :
          /\ query' = <<wx, wy>>
          /\ dir' = DirectionAtWorld(cols, rows, wx, wy)
    /\ pc' = "asked"
    /\ UNCHANGED <<dist, target_tile, valid, rebuilt, req>>
    /\ UNCHANGED <<generatorVars, validatorVars, levelVars, kin, agentVars, lateVars>>

NextF ==
    \/ Rebuild
    \/ DirectionAt

SpecF == InitF /\ [][NextF]_vars

(***************************************************************************)
(* Level (world/level.py): the enemy buckets and the separation pass.      *)
(* A position is <<x, y>> in 1/Sub of a pixel, so that the halves and the  *)
(* thousandths of a pixel the pass works with are whole numbers.  An       *)
(* enemy is [pos, radius, dead]; the list is indexed from 1 and an enemy   *)
(* is named by its index.  The pass also damps vel.x of a pushed enemy,    *)
(* which no position depends on within the pass.                           *)
(***************************************************************************)
Sub == 64000

\* self.enemy_bucket_px
enemy_bucket_px == 96

\* radius=16 of _make_enemy
EnemyRadius == 16

\* (int(e.pos.x // s), int(e.pos.y // s))
BucketKey(pos) ==
    <<pos[1] \div (enemy_bucket_px * Sub), pos[2] \div (enemy_bucket_px * Sub)>>

\* the place of a key in the bucket map (a dict, kept in insertion order as
\* a list of <<key, list of enemies>>), 0 when the key is absent
BucketIndex(bk, key) ==
    IF \E k \in 1..Len(bk) : bk[k][1] = key
    THEN CHOOSE k \in 1..Len(bk) : bk[k][1] = key
    ELSE 0

\* buckets.get(key, ())
BucketGet(bk, key) ==
    IF BucketIndex(bk, key) = 0 THEN <<>> ELSE bk[BucketIndex(bk, key)][2]

\* _build_enemy_buckets: the loop from enemy i on
RECURSIVE BuildEnemyBuckets(_, _, _)
BuildEnemyBuckets(es, i, bk) ==
    IF i > Len(es) THEN bk
    ELSE IF es[i].dead THEN BuildEnemyBuckets(es, i + 1, bk)
    ELSE LET key == BucketKey(es[i].pos)
             k == BucketIndex(bk, key)
         IN  BuildEnemyBuckets(es, i + 1,
                 IF k = 0 THEN Append(bk, <<key, <<i>>>>)
                 ELSE [bk EXCEPT ![k][2] = Append(@, i)])

\* the offsets <<ox, oy>> in the order of "for oy in (-1, 0, 1): for ox ..."
BucketOffsets ==
    <<<<-1, -1>>, <<0, -1>>, <<1, -1>>,
      <<-1, 0>>, <<0, 0>>, <<1, 0>>,
      <<-1, 1>>, <<0, 1>>, <<1, 1>>>>

\* the enemies of the bucket of key and of the 8 buckets around it
RECURSIVE Candidates(_, _, _)
Candidates(bk, key, offs) ==
    IF offs = <<>> THEN <<>>
    ELSE BucketGet(bk, <<key[1] + Head(offs)[1], key[2] + Head(offs)[2]>>)
         \o Candidates(bk, key, Tail(offs))

\* Vector2.length() of a vector along an axis (the enemies of a model run
\* stand on one line parallel to an axis, and the pass keeps them on it)
Length(d) == IF d[1] = 0 THEN Abs(d[2]) ELSE Abs(d[1])

\* 0.001 and 1.0 of the degenerate branch
DegenerateDist == Sub \div 1000
SyntheticDist == Sub

\* the body of the pair loop: the positions after enemies a and b are
\* pushed apart
ResolvePair(es, a, b) ==
    LET d0 == <<es[b].pos[1] - es[a].pos[1], es[b].pos[2] - es[a].pos[2]>>
        dist0 == Length(d0)
        min_dist == (es[a].radius + es[b].radius) * Sub
        d == IF dist0 <= DegenerateDist THEN <<1, 0>> ELSE d0
        dst == IF dist0 <= DegenerateDist THEN SyntheticDist ELSE dist0
        len == IF dist0 <= DegenerateDist THEN 1 ELSE dist0
        overlap == min_dist - dst
        push == <<(d[1] \div len) * (overlap \div 2),
                  (d[2] \div len) * (overlap \div 2)>>
    IN  IF dst < min_dist
        THEN [es EXCEPT ![a].pos = <<@[1] - push[1], @[2] - push[2]>>,
                        ![b].pos = <<@[1] + push[1], @[2] + push[2]>>]
        ELSE es

\* "for b in candidates" for enemy a; st is [es, checked, tested]
RECURSIVE PassCandidates(_, _, _)
PassCandidates(a, cands, st) ==
    IF cands = <<>> THEN st
    ELSE LET b == Head(cands)
         IN  IF b = a \/ st.es[b].dead \/ {a, b} \in st.checked
             THEN PassCandidates(a, Tail(cands), st)
             ELSE PassCandidates(a, Tail(cands),
                      [es |-> ResolvePair(st.es, a, b),
                       checked |-> st.checked \cup {{a, b}},
                       tested |-> Append(st.tested, {a, b})])

\* "for i in range(len(group))"
RECURSIVE PassGroup(_, _, _)
PassGroup(group, cands, st) ==
    IF group = <<>> THEN st
    ELSE IF st.es[Head(group)].dead THEN PassGroup(Tail(group), cands, st)
    ELSE PassGroup(Tail(group), cands, PassCandidates(Head(group), cands, st))

\* "for key, group in buckets.items()" from bucket k on
RECURSIVE PassBuckets(_, _, _)
PassBuckets(bk, k, st) ==
    IF k > Len(bk) THEN st
    ELSE PassBuckets(bk, k + 1,
             PassGroup(bk[k][2], Candidates(bk, bk[k][1], BucketOffsets), st))

\* _resolve_enemy_collisions_bucketed(buckets)
ResolveEnemyCollisionsBucketed(es, bk) ==
    PassBuckets(bk, 1, [es |-> es, checked |-> {}, tested |-> <<>>])

(***************************************************************************)
(* The separation pass on its own: up to MaxAgents enemies of radius       *)
(* EnemyRadius stand on a horizontal line, some of them dead; the bucket   *)
(* map is built from where they stand and the pass is run, twice.          *)
(***************************************************************************)
MaxAgents == 3

\* where an enemy may stand (x in pixels), and a thousandth of a pixel
\* beside the first place
AgentPlaces ==
    {px * Sub : px \in {0, 10, 20, 40, 90, 100}} \cup {DegenerateDist}

AgentLists ==
    UNION {[1..n -> {[pos |-> <<x, 0>>, radius |-> EnemyRadius, dead |-> dd] :
                        x \in AgentPlaces, dd \in BOOLEAN}] : n \in 2..MaxAgents}

InitS ==
    /\ phys = <<GRAVITY, JUMP_SPEED, MOVE_SPEED>>
    /\ env = NoEnv
    /\ cols = 0
    /\ rows = 0
    /\ pc = "s_0"
    /\ attempt = 0
    /\ fails = 0
    /\ rng = 0
    /\ biome = Biomes[1]
    /\ grid = NoGrid
    /\ rooms = <<>>
    /\ todo = 0
    /\ main_path = <<>>
    /\ spawn = <<0, 0>>
    /\ safety = 0
    /\ tries = 0
    /\ forced = FALSE
    /\ result = NoGrid
    /\ fallback = FALSE
    /\ goal = GoalRow
    /\ q = <<>>
    /\ visited = {}
    /\ accepted = {}
    /\ verdict = "none"
    /\ FlowIdle
    /\ dt_in = 0
    /\ dt = 0
    /\ flow_timer = 0
    /\ player = 0
    /\ flow_src = <<>>
    /\ steps = <<>>
    /\ enemies \in AgentLists
    /\ buckets = <<>>
    /\ tested = <<>>
    /\ before = <<>>
    /\ frame = 0
    /\ KinIdle
    /\ AgentIdle
    /\ LateIdle

\* buckets = self._build_enemy_buckets() followed, with no enemy moved in
\* between, by self._resolve_enemy_collisions_bucketed(buckets)
SeparationPass ==
    /\ pc \in {"s_0", "s_1"}
    /\ \E bk \in {BuildEnemyBuckets(enemies, 1, <<>>)} :
       \E st \in {ResolveEnemyCollisionsBucketed(enemies, bk)} :
          /\ buckets' = bk
          /\ enemies' = st.es
          /\ tested' = st.tested
    /\ before' = Append(before, enemies)
    /\ pc' = IF pc = "s_0" THEN "s_1" ELSE "s_2"
    /\ UNCHANGED <<dt_in, dt, flow_timer, player, flow_src, steps, frame>>
    /\ UNCHANGED <<generatorVars, validatorVars, flowVars, kin, agentVars, lateVars>>

NextS == SeparationPass

SpecS == InitS /\ [][NextS]_vars

(***************************************************************************)
(* Level.update as a state machine: one action per step of a frame, pc is  *)
(* the step the call is at.  The level is in the middle of a wave: the     *)
(* enemy list is not empty, no bullet and no power-up exists and           *)
(* shoot_pressed is False, so that lines 183-238 change nothing the model  *)
(* holds; nobody is dead or below fall_y, so neither do lines 272-282.     *)
(* Time is counted in ticks of 1/TicksPerSecond s.  The steps of           *)
(* Enemy.update that matter here are the two that bound its vertical move: *)
(* an enemy stays where it is (at rest, or at the top of a jump) or falls  *)
(* at MAX_FALL_SPEED, down to the ground at most.                          *)
(***************************************************************************)
TicksPerSecond == 600

\* 1.0 / 30.0
MaxStep == TicksPerSecond \div 30

\* self.flow_interval = 0.16
FlowInterval == (16 * TicksPerSecond) \div 100

\* "if dt > 1.0 / 30.0: dt = 1.0 / 30.0"
ClampDt(d) == IF d > MaxStep THEN MaxStep ELSE d

\* the dt the frames are called with: 1/60 s, and 1/20 s after a stall
DtInputs == {TicksPerSecond \div 60, TicksPerSecond \div 20}

MAX_FALL_SPEED == 2400

\* AbilityBase.run_speed
PlayerRunSpeed == 230

\* the level: three columns of open tiles over a row of ground
LevelGrid ==
    [y \in 0..9 |-> [x \in 0..2 |-> IF y = 9 THEN "#" ELSE "."]]

\* the row of the ground
GroundRow == Cardinality(DOMAIN LevelGrid) - 1

\* player.rect.center of a player standing on the ground: rect is 22 x 34
PlayerCentreY == GroundRow * TILE_SIZE - 34 + 34 \div 2

\* the centre x of the player, either side of the border of tiles 0 and 1
PlayerXs == {45, 50}

\* the player's move in one update: at most run_speed * dt
PlayerMoves(x, d) ==
    {x2 \in PlayerXs : Abs(x2 - x) * TicksPerSecond <= PlayerRunSpeed * d}

\* pos.y of an enemy standing on the ground
RestY == (GroundRow * TILE_SIZE - EnemyRadius) * Sub

\* the enemies of a frame: two, in the air of one column
LevelYs == {111, 191, 290}

LevelEnemies ==
    [1..2 -> {[pos |-> <<100 * Sub, y * Sub>>, radius |-> EnemyRadius,
               dead |-> FALSE] : y \in LevelYs}]

\* pos.y += vel.y * dt at vel.y = MAX_FALL_SPEED, stopped by the ground
FallFrom(y, d) ==
    Min(y + ((MAX_FALL_SPEED * d) \div TicksPerSecond) * Sub, Max(y, RestY))

\* the clamp of pos.x to the world
ClampToWorld(x, c, radius) ==
    Max(radius * Sub, Min((c * TILE_SIZE - radius) * Sub, x))

MaxFrames == 2

InitL ==
    /\ phys = <<GRAVITY, JUMP_SPEED, MOVE_SPEED>>
    /\ env = NoEnv
    /\ grid = LevelGrid
    /\ rows = Cardinality(DOMAIN LevelGrid)
    /\ cols = Cardinality(DOMAIN LevelGrid[0])
    /\ pc = "l_frame"
    /\ attempt = 0
    /\ fails = 0
    /\ rng = 0
    /\ biome = Biomes[1]
    /\ rooms = <<>>
    /\ todo = 0
    /\ main_path = <<>>
    /\ spawn = <<0, 0>>
    /\ safety = 0
    /\ tries = 0
    /\ forced = FALSE
    /\ result = NoGrid
    /\ fallback = FALSE
    /\ goal = GoalRow
    /\ q = <<>>
    /\ visited = {}
    /\ accepted = {}
    /\ verdict = "none"
    /\ FlowIdle
    /\ dt_in = 0
    /\ dt = 0
    /\ flow_timer \in {0, FlowInterval}
    /\ player \in PlayerXs
    /\ flow_src = <<>>
    /\ steps = <<>>
    /\ enemies \in LevelEnemies
    /\ buckets = <<>>
    /\ tested = <<>>
    /\ before = <<>>
    /\ frame = 0
    /\ KinIdle
    /\ AgentIdle
    /\ LateIdle

\* lines 158-167: the dt clamp and the periodic rebuild of the flow field,
\* at the centre of the player's rect as it is now
FlowCheck ==
    /\ pc = "l_frame"
    /\ frame < MaxFrames
    /\ \E d \in DtInputs :
          /\ dt_in' = d
          /\ dt' = ClampDt(d)
          /\ IF flow_timer - ClampDt(d) <= 0
             THEN \E f \in {RebuildField(grid, cols, rows, player, PlayerCentreY)} :
                     /\ dist' = f.dist
                     /\ target_tile' = f.target_tile
                     /\ valid' = f.valid
                     /\ rebuilt' = f.rebuilt
                     /\ req' = f.req
                     /\ flow_timer' = FlowInterval
                     /\ flow_src' = <<player>>
             ELSE /\ flow_timer' = flow_timer - ClampDt(d)
                  /\ flow_src' = <<>>
                  /\ UNCHANGED <<dist, target_tile, valid, rebuilt, req>>
    /\ steps' = <<"flow">>
    /\ pc' = "l_player"
    /\ UNCHANGED <<query, dir, player, enemies, buckets, tested, before, frame>>
    /\ UNCHANGED <<generatorVars, validatorVars, kin, agentVars, lateVars>>

\* lines 170-190: self.player.update(dt, ...) and the clamp to the world
PlayerUpdate ==
    /\ pc = "l_player"
    /\ player' \in PlayerMoves(player, dt)
    /\ steps' = Append(steps, "player")
    /\ pc' = "l_buckets"
    /\ UNCHANGED <<dt_in, dt, flow_timer, flow_src, enemies, buckets, tested,
                   before, frame>>
    /\ UNCHANGED <<generatorVars, validatorVars, flowVars, kin, agentVars, lateVars>>

\* line 242: buckets = self._build_enemy_buckets()
BuildBuckets ==
    /\ pc = "l_buckets"
    /\ buckets' = BuildEnemyBuckets(enemies, 1, <<>>)
    /\ steps' = Append(steps, "buckets")
    /\ pc' = "l_enemies"
    /\ UNCHANGED <<dt_in, dt, flow_timer, player, flow_src, enemies, tested,
                   before, frame>>
    /\ UNCHANGED <<generatorVars, validatorVars, flowVars, kin, agentVars, lateVars>>

\* lines 244-266: e.update(dt, ...) and the clamp to the world, for every
\* live enemy
EnemyUpdates ==
    /\ pc = "l_enemies"
    /\ \E falls \in [1..Len(enemies) -> BOOLEAN] :
          enemies' =
              [i \in 1..Len(enemies) |->
                  IF enemies[i].dead THEN enemies[i]
                  ELSE [enemies[i] EXCEPT !.pos =
                           <<ClampToWorld(@[1], cols, enemies[i].radius),
                             IF falls[i] THEN FallFrom(@[2], dt) ELSE @[2]>>]]
    /\ steps' = Append(steps, "enemies")
    /\ pc' = "l_separate"
    /\ UNCHANGED <<dt_in, dt, flow_timer, player, flow_src, buckets, tested,
                   before, frame>>
    /\ UNCHANGED <<generatorVars, validatorVars, flowVars, kin, agentVars, lateVars>>

\* line 269: self._resolve_enemy_collisions_bucketed(buckets), with the
\* bucket map of line 242; the frame ends
Separate ==
    /\ pc = "l_separate"
    /\ \E st \in {ResolveEnemyCollisionsBucketed(enemies, buckets)} :
          /\ enemies' = st.es
          /\ tested' = st.tested
    /\ before' = <<enemies>>
    /\ steps' = Append(steps, "separation")
    /\ frame' = frame + 1
    /\ pc' = "l_frame"
    /\ UNCHANGED <<dt_in, dt, flow_timer, player, flow_src, buckets>>
    /\ UNCHANGED <<generatorVars, validatorVars, flowVars, kin, agentVars, lateVars>>

NextL ==
    \/ FlowCheck
    \/ PlayerUpdate
    \/ BuildBuckets
    \/ EnemyUpdates
    \/ Separate

SpecL == InitL /\ [][NextL]_vars

(***************************************************************************)
(* One vertical step of a body next to a thin solid: the gravity and the   *)
(* Y pass of Enemy.update (enemy.py 139-145, 417-430) and of Player.update *)
(* (player.py 195, 263-276), with the dt that Level.update passes on.      *)
(* Positions are in 1/KinUnits.pos px and speeds in 1/KinUnits.vel px/s,   *)
(* so that the gravity and the displacement of a step are integers.        *)
(***************************************************************************)
KinUnits == [pos |-> 180, vel |-> 3]

\* what the two kinds of body differ in: gravity and terminal speed (px/s^2,
\* px/s), jump speed, the height of the rect and the distance from pos.y up
\* to the rect's top
KinBody(kind) ==
    IF kind = "Enemy"
    THEN [gravity |-> GRAVITY, cap |-> MAX_FALL_SPEED, jump |-> 760,
          h |-> 2 * EnemyRadius, off |-> EnemyRadius]
    ELSE [gravity |-> 2200, cap |-> 1200, jump |-> 820, h |-> 34, off |-> 0]

\* a solid one tile thick, in row 11
ThinSolid == [top |-> 11 * TILE_SIZE, bottom |-> 12 * TILE_SIZE]

\* the top of the body's rect: int(pos.y - radius) for an enemy, int(pos.y)
\* for the player
RectTop(kind, y) == (y \div KinUnits.pos) - KinBody(kind).off

\* pygame's colliderect for a rect aligned with the solid on the x axis:
\* rects that only touch do not collide
CollideRect(kind, y) ==
    /\ RectTop(kind, y) < ThinSolid.bottom
    /\ ThinSolid.top < RectTop(kind, y) + KinBody(kind).h

\* where the rect is with respect to the solid
Side(kind, y) ==
    IF RectTop(kind, y) + KinBody(kind).h <= ThinSolid.top THEN "above"
    ELSE IF RectTop(kind, y) >= ThinSolid.bottom THEN "below"
    ELSE "inside"

\* the pos.y of a body whose rect's top is at the pixel row top
PosOfTop(kind, top) == (top + KinBody(kind).off) * KinUnits.pos

\* vel.y after the gravity of a step of d ticks
Gravitate(kind, vy, d) ==
    Min(KinBody(kind).cap * KinUnits.vel,
        vy + (KinBody(kind).gravity * KinUnits.vel * d) \div TicksPerSecond)

\* the Y pass: move, then snap out of the solid if the rect collides with it
MoveY(kind, y, vy, d) ==
    LET y1 == y + (vy * d * KinUnits.pos) \div (KinUnits.vel * TicksPerSecond)
    IN  IF ~CollideRect(kind, y1) THEN [y |-> y1, vy |-> vy, hit |-> FALSE]
        ELSE IF vy > 0
             THEN [y |-> PosOfTop(kind, ThinSolid.top - KinBody(kind).h),
                   vy |-> 0, hit |-> TRUE]
        ELSE IF vy < 0
             THEN [y |-> PosOfTop(kind, ThinSolid.bottom),
                   vy |-> 0, hit |-> TRUE]
        ELSE [y |-> IF kind = "Enemy" THEN y1
                    ELSE PosOfTop(kind, RectTop(kind, y1)),
              vy |-> 0, hit |-> TRUE]

MaxKinSteps == 2

\* bodies in the air clear of the solid: falling towards it from above, at
\* rest or at a speed up to the terminal one, or jumping towards it from below
KinStarts(kind) ==
    {[y |-> PosOfTop(kind, ThinSolid.top - KinBody(kind).h - gap) + frac,
      vy |-> (KinBody(kind).cap * KinUnits.vel * part) \div 2] :
        gap \in {0, 1, 40, 80}, frac \in {0, (2 * KinUnits.pos) \div 5},
        part \in 0..2}
    \cup
    {[y |-> PosOfTop(kind, ThinSolid.bottom + gap),
      vy |-> -(KinBody(kind).jump * KinUnits.vel)] : gap \in {0, 10, 25}}

InitK ==
    /\ phys = <<GRAVITY, JUMP_SPEED, MOVE_SPEED>>
    /\ env = NoEnv
    /\ grid = NoGrid
    /\ cols = 0
    /\ rows = 0
    /\ pc = "k_step"
    /\ attempt = 0
    /\ fails = 0
    /\ rng = 0
    /\ biome = Biomes[1]
    /\ rooms = <<>>
    /\ todo = 0
    /\ main_path = <<>>
    /\ spawn = <<0, 0>>
    /\ safety = 0
    /\ tries = 0
    /\ forced = FALSE
    /\ result = NoGrid
    /\ fallback = FALSE
    /\ goal = GoalRow
    /\ q = <<>>
    /\ visited = {}
    /\ accepted = {}
    /\ verdict = "none"
    /\ FlowIdle
    /\ LevelIdle
    /\ \E kind \in {"Player", "Enemy"} :
          \E st \in KinStarts(kind) :
              kin = [kind |-> kind, y |-> st.y, vy |-> st.vy, n |-> 0,
                     from |-> Side(kind, st.y), to |-> Side(kind, st.y),
                     hit |-> FALSE]
    /\ AgentIdle
    /\ LateIdle

\* level.py 160-161 and the update of the body with the clamped dt
KinStep ==
    /\ pc = "k_step"
    /\ kin.n < MaxKinSteps
    /\ \E d \in DtInputs :
          \E m \in {MoveY(kin.kind, kin.y,
                          Gravitate(kin.kind, kin.vy, ClampDt(d)),
                          ClampDt(d))} :
              /\ dt_in' = d
              /\ dt' = ClampDt(d)
              /\ kin' = [kind |-> kin.kind, y |-> m.y, vy |-> m.vy,
                         n |-> kin.n + 1, from |-> Side(kin.kind, kin.y),
                         to |-> Side(kin.kind, m.y), hit |-> m.hit]
    /\ UNCHANGED <<flow_timer, player, flow_src, steps, enemies, buckets,
                   tested, before, frame>>
    /\ UNCHANGED <<generatorVars, validatorVars, pc, flowVars, agentVars, lateVars>>

NextK == KinStep

SpecK == InitK /\ [][NextK]_vars

(***************************************************************************)
(* Player.update (entities/player.py).  Times are in ms, speeds in         *)
(* 1/PUnits.vel px/s and positions in 1/PUnits.pos px, so that a speed     *)
(* times a dt is a displacement; the products of the source are exact in   *)
(* these units but for the 0.55 of the variable jump height, which is      *)
(* truncated to a unit of speed.  Health, hurt_timer and shoot_cd take no  *)
(* part in the movement and are left out.                                  *)
(***************************************************************************)
PUnits == [vel |-> 100, pos |-> 100000]

\* px/s in units of speed
Speed(v) == v * PUnits.vel

\* the speed a rate of a px/s^2 adds in d ms
SpeedGain(a, d) == (a * d * PUnits.vel) \div 1000

\* Abilities without power-ups (abilities.py 30-37) and the tuning of
\* Player.__init__ and Player.update
PlayerKit ==
    [run_speed |-> 230, jump_speed |-> 820, max_jumps |-> 2,
     dash_speed |-> 560, dash_time |-> 140, dash_cooldown |-> 550,
     air_dashes_max |-> 1, gravity |-> 2200, max_fall |-> 1200,
     wall_slide_speed |-> 320, wall_jump_x |-> 520, wall_lock |-> 160,
     jump_buffer |-> 120, coyote |-> 100, ground_accel |-> 3600,
     w |-> 22, h |-> 34]

\* pygame.Rect.colliderect: rects that only touch do not collide
RectsCollide(a, b) ==
    /\ a.x < b.x + b.w
    /\ b.x < a.x + a.w
    /\ a.y < b.y + b.h
    /\ b.y < a.y + a.h

\* the rect of the solid tile of column cx and row cy
TileRect(cx, cy) ==
    [x |-> cx * TILE_SIZE, y |-> cy * TILE_SIZE, w |-> TILE_SIZE, h |-> TILE_SIZE]

\* the solids given to update, in the row-major order of
\* get_solid_rects_near: a ceiling tile, a wall of two tiles and a floor
SceneSolids ==
    <<TileRect(0, 0), TileRect(3, 0), TileRect(3, 1),
      TileRect(0, 2), TileRect(1, 2), TileRect(2, 2), TileRect(3, 2)>>

PlayerRect(p) ==
    [x |-> p.rect[1], y |-> p.rect[2], w |-> PlayerKit.w, h |-> PlayerKit.h]

\* _detect_wall: 1 px probes on the two sides of the rect
DetectWall(p, solids) ==
    LET r == PlayerRect(p)
        left_probe == [x |-> r.x - 1, y |-> r.y + 2, w |-> 1, h |-> r.h - 4]
        right_probe == [x |-> r.x + r.w, y |-> r.y + 2, w |-> 1, h |-> r.h - 4]
        hit_left == \E i \in DOMAIN solids : RectsCollide(left_probe, solids[i])
        hit_right == \E i \in DOMAIN solids : RectsCollide(right_probe, solids[i])
    IN  IF hit_left /\ ~hit_right THEN -1
        ELSE IF hit_right /\ ~hit_left THEN 1
        ELSE 0

\* "if t > 0: t = max(0, t - dt)"
Timer(t, d) == IF t > 0 THEN Max(0, t - d) ELSE t

\* lines 95-131: the timers, the facing, the jump buffer and the coyote time
Begin(p, a) ==
    [p EXCEPT !.dash_cd = Timer(@, a.dt),
              !.wall_lock = Timer(@, a.dt),
              !.facing = IF a.move_x # 0 THEN a.move_x ELSE @,
              !.jump_buffer = IF a.jump_pressed THEN PlayerKit.jump_buffer
                              ELSE Max(0, @ - a.dt),
              !.coyote = IF p.on_ground THEN PlayerKit.coyote
                         ELSE Max(0, @ - a.dt)]

\* lines 134-138: the start of a dash.  Line 138 reads
\* self.abilities.dash_time, which Abilities does not have: the call raises
\* AttributeError after line 137 has set dashing, and lines 139-143 (the
\* direction, the velocity and the air dash taken) are never run.
DashStart(p, a) ==
    IF /\ a.dash_pressed
       /\ ~p.dashing
       /\ p.dash_cd <= 0
       /\ (p.on_ground \/ p.air_dashes_left > 0)
    THEN [p EXCEPT !.dashing = TRUE, !.dash_started = TRUE, !.raised = TRUE]
    ELSE p

\* lines 152-153: the clamp of the fall speed on a wall
SlideClamp(p, wd) ==
    IF wd # 0 /\ p.vel[2] > Speed(PlayerKit.wall_slide_speed)
    THEN Speed(PlayerKit.wall_slide_speed)
    ELSE p.vel[2]

\* lines 146-153: the wall detection and the wall slide
WallSlide(p, solids) ==
    LET wd == IF p.wall_lock <= 0 /\ ~p.on_ground
              THEN DetectWall(p, solids) ELSE 0
    IN  [p EXCEPT !.wall_dir = wd, !.vel[2] = SlideClamp(p, wd)]

\* line 169: the jump charges a wall jump leaves
WallJumpCharges(n) == Max(0, PlayerKit.max_jumps - 1)

\* lines 157-169: the wall jump
WallJump(p) ==
    IF p.jump_buffer > 0 /\ p.wall_dir # 0 /\ ~p.on_ground
    THEN [p EXCEPT !.vel = <<-p.wall_dir * Speed(PlayerKit.wall_jump_x),
                             -Speed(PlayerKit.jump_speed)>>,
                   !.wall_lock = PlayerKit.wall_lock,
                   !.wall_dir = 0,
                   !.jump_buffer = 0,
                   !.jumps_left = WallJumpCharges(@),
                   !.wall_jumped = TRUE]
    ELSE p

\* lines 173-176: an update of the dash
DashTick(p, a) ==
    IF p.dash_timer - a.dt <= 0
    THEN [p EXCEPT !.dash_timer = @ - a.dt,
                   !.dashing = FALSE,
                   !.dash_cd = PlayerKit.dash_cooldown]
    ELSE [p EXCEPT !.dash_timer = @ - a.dt]

\* lines 179-195 for a player on the ground: the horizontal acceleration
\* and the gravity
Run(p, a) ==
    LET target == a.move_x * Speed(PlayerKit.run_speed)
        into_wall == \/ (a.move_x < 0 /\ p.wall_dir < 0)
                     \/ (a.move_x > 0 /\ p.wall_dir > 0)
        full == SpeedGain(PlayerKit.ground_accel, a.dt)
        step == IF p.wall_dir # 0 /\ into_wall THEN (full * 45) \div 100 ELSE full
        diff == target - p.vel[1]
    IN  [p EXCEPT !.vel = <<p.vel[1] + Max(-step, Min(step, diff)),
                            Min(Speed(PlayerKit.max_fall),
                                p.vel[2] + SpeedGain(PlayerKit.gravity, a.dt))>>,
                  !.gravity_applied = TRUE]

\* lines 198-206: the buffered jump
BufferedJump(p) ==
    IF p.jump_buffer > 0 /\ (p.on_ground \/ p.coyote > 0 \/ p.jumps_left > 0)
    THEN [p EXCEPT !.jumps_left = IF p.on_ground \/ p.coyote > 0 THEN @ ELSE @ - 1,
                   !.vel[2] = -Speed(PlayerKit.jump_speed),
                   !.on_ground = FALSE,
                   !.coyote = 0,
                   !.jump_buffer = 0,
                   !.jumped = TRUE]
    ELSE p

\* lines 209-210: the variable jump height
Release(p, a) ==
    IF a.jump_released /\ p.vel[2] < 0
    THEN [p EXCEPT !.vel[2] = -(((-@) * 55) \div 100)]
    ELSE p

\* the loop of lines 254-261 from solid i on
RECURSIVE CollideX(_, _, _)
CollideX(p, solids, i) ==
    IF i > Len(solids) THEN p
    ELSE IF ~RectsCollide(PlayerRect(p), solids[i]) THEN CollideX(p, solids, i + 1)
    ELSE LET s == solids[i]
             x == IF p.vel[1] > 0 THEN s.x - PlayerKit.w
                  ELSE IF p.vel[1] < 0 THEN s.x + s.w
                  ELSE p.rect[1]
         IN  CollideX([p EXCEPT !.rect[1] = x,
                                !.pos[1] = x * PUnits.pos,
                                !.vel[1] = 0,
                                !.hit_x = TRUE],
                      solids, i + 1)

\* a faulty variant of LandsOn: any collision of the Y pass grounds
LandsOnAnyMut(vy) == TRUE

\* line 270: the collisions of the Y pass that ground the player
LandsOn(vy) == vy > 0

\* the loop of lines 268-276 from solid i on
RECURSIVE CollideY(_, _, _)
CollideY(p, solids, i) ==
    IF i > Len(solids) THEN p
    ELSE IF ~RectsCollide(PlayerRect(p), solids[i]) THEN CollideY(p, solids, i + 1)
    ELSE LET s == solids[i]
             y == IF p.vel[2] > 0 THEN s.y - PlayerKit.h
                  ELSE IF p.vel[2] < 0 THEN s.y + s.h
                  ELSE p.rect[2]
         IN  CollideY([p EXCEPT !.rect[2] = y,
                                !.pos[2] = y * PUnits.pos,
                                !.on_ground = IF LandsOn(p.vel[2]) THEN TRUE ELSE @,
                                !.vel[2] = 0,
                                !.hit_y = TRUE,
                                !.hit_down = @ \/ p.vel[2] > 0],
                      solids, i + 1)

\* _move_and_collide: the X pass, then the Y pass
MoveAndCollide(p, d, solids) ==
    LET x1 == p.pos[1] + p.vel[1] * d
        px == CollideX([p EXCEPT !.pos[1] = x1,
                                 !.rect[1] = IntTrunc(x1, PUnits.pos)],
                       solids, 1)
        y1 == px.pos[2] + px.vel[2] * d
    IN  CollideY([px EXCEPT !.pos[2] = y1,
                            !.rect[2] = IntTrunc(y1, PUnits.pos),
                            !.on_ground = FALSE,
                            !.vx_used = px.vel[1],
                            !.vy_used = px.vel[2],
                            !.moved = TRUE],
                 solids, 1)

\* a faulty variant of ResetStocks: the ground gives back max_jumps jumps
ResetStocksFullMut(p) ==
    IF p.on_ground
    THEN [p EXCEPT !.jumps_left = PlayerKit.max_jumps,
                   !.air_dashes_left = PlayerKit.air_dashes_max]
    ELSE p

\* a faulty variant of ResetStocks: the stocks are left as they are
ResetStocksOffMut(p) == p

\* lines 216-218: the jumps and the air dashes are given back on the ground
ResetStocks(p) ==
    IF p.on_ground
    THEN [p EXCEPT !.jumps_left = Max(0, PlayerKit.max_jumps - 1),
                   !.air_dashes_left = PlayerKit.air_dashes_max]
    ELSE p

\* what a call of update did, kept beside the fields while it runs
NoEvents ==
    [dash_started |-> FALSE, wall_jumped |-> FALSE, jumped |-> FALSE,
     gravity_applied |-> FALSE, moved |-> FALSE, hit_x |-> FALSE,
     hit_y |-> FALSE, hit_down |-> FALSE, vx_used |-> 0, vy_used |-> 0,
     raised |-> FALSE]

PlayerFields ==
    {"pos", "vel", "rect", "on_ground", "facing", "jumps_left", "jump_buffer",
     "coyote", "dashing", "dash_timer", "dash_cd", "air_dashes_left",
     "dash_dir", "wall_dir", "wall_lock"}

\* Player.update(dt, input_state, jump_pressed, jump_released, jump_held,
\* dash_pressed, solids) with the move axis the keyboard gives.  Line 180
\* reads self.abilities.air_control, which Abilities does not have: a call
\* that gets there with on_ground false raises AttributeError.  A call that
\* raises leaves the player as the lines before made it.
Player_update(p, a, solids) ==
    LET d == DashStart(Begin(p @@ NoEvents, a), a)
        w == WallJump(WallSlide(d, solids))
    IN  IF d.raised THEN d
        ELSE IF w.dashing
        THEN ResetStocks(MoveAndCollide(Release(DashTick(w, a), a), a.dt, solids))
        ELSE IF ~w.on_ground
        THEN [w EXCEPT !.raised = TRUE]
        ELSE ResetStocks(MoveAndCollide(Release(BufferedJump(Run(w, a)), a),
                                        a.dt, solids))

\* the fields of the player in a result of Player_update
FieldsOf(w) == [f \in PlayerFields |-> w[f]]

\* the events in a result of Player_update
EventsOf(w) == [f \in DOMAIN NoEvents |-> w[f]]

\* Player.__init__ at (x, y)
NewPlayer(x, y) ==
    [pos |-> <<x * PUnits.pos, y * PUnits.pos>>, vel |-> <<0, 0>>,
     rect |-> <<x, y>>, on_ground |-> FALSE, facing |-> 1,
     jumps_left |-> Max(0, PlayerKit.max_jumps - 1), jump_buffer |-> 0,
     coyote |-> 0, dashing |-> FALSE, dash_timer |-> 0, dash_cd |-> 0,
     air_dashes_left |-> PlayerKit.air_dashes_max, dash_dir |-> 1,
     wall_dir |-> 0, wall_lock |-> 0]

\* where the player's rect stands on the floor, and where it touches the wall
FloorY == SceneSolids[4].y - PlayerKit.h
WallX == SceneSolids[2].x - PlayerKit.w

MaxUpdates == 2

PlayerDts == {16, 20}

MoveAxes == {-1, 0, 1}

PlayerArgs ==
    [dt : PlayerDts, jump_pressed : BOOLEAN, jump_released : BOOLEAN,
     dash_pressed : BOOLEAN, move_x : MoveAxes]

\* the players update is called on: with the grounded flag set, the rect on
\* the floor and pos.y within its pixel; in the air, at rest, falling or
\* rising, with or without coyote time left; and in a dash.  Each of them
\* in the open and against the wall.
PlayerStates ==
    {[NewPlayer(x, FloorY) EXCEPT !.on_ground = TRUE,
                                  !.pos[2] = @ + frac,
                                  !.jumps_left = j,
                                  !.air_dashes_left = j] :
        x \in {20, WallX}, frac \in {0, (3 * PUnits.pos) \div 5}, j \in 0..1}
    \cup
    {[NewPlayer(x, FloorY - 12) EXCEPT !.vel[2] = vy,
                                       !.coyote = c,
                                       !.jumps_left = j,
                                       !.air_dashes_left = ad] :
        x \in {20, WallX}, vy \in {0, Speed(400), -Speed(300)},
        c \in {0, 84}, j \in 0..1, ad \in 0..1}
    \cup
    {[NewPlayer(x, y) EXCEPT !.dashing = TRUE,
                             !.dash_timer = t,
                             !.vel[1] = Speed(PlayerKit.dash_speed),
                             !.on_ground = (y = FloorY),
                             !.air_dashes_left = IF y = FloorY THEN 1 ELSE 0] :
        x \in {20, WallX}, y \in {FloorY, FloorY - 12},
        t \in {PlayerKit.dash_time, 12}}

(***************************************************************************)
(* Enemy.update (entities/enemy.py), in the units of the player.  What the *)
(* enemy perceives of its arguments (the direction its path gives, an      *)
(* enemy in front, a gap ahead, the player far, the player above and       *)
(* close) is an input of the call.                                         *)
(***************************************************************************)
\* the tuning of Enemy.__init__
EnemyKit ==
    [speed |-> 205, jump_speed |-> 760, max_jumps |-> 2, coyote_time |-> 100,
     wall_slide_speed |-> 420, wall_jump_x |-> 420, wall_jump_y |-> 760,
     wall_stick_time |-> 100, dash_time |-> 140, dash_speed |-> 520,
     dash_cooldown |-> 550, air_dashes_max |-> 1, jump_cd |-> 160,
     wall_jump_cd |-> 180]

\* Enemy.rect: the square around pos
EnemyRect(e) ==
    [x |-> IntTrunc(e.pos[1], PUnits.pos) - EnemyRadius,
     y |-> IntTrunc(e.pos[2], PUnits.pos) - EnemyRadius,
     w |-> 2 * EnemyRadius, h |-> 2 * EnemyRadius]

\* lines 106-109: "t = max(0, t - dt)"
Cooldown(t, d) == Max(0, t - d)

\* lines 198-207: _start_dash
StartDash(e, a) ==
    [e EXCEPT !.dashing = TRUE,
              !.dash_timer = EnemyKit.dash_time,
              !.dash_cd = EnemyKit.dash_cooldown,
              !.air_dashes_left = IF e.on_ground THEN @ ELSE @ - 1,
              !.vel = <<a.move_dir * Speed(EnemyKit.dash_speed), 0>>,
              !.dash_started = TRUE]

\* lines 106-128: the timers, the facing and the decision to dash
EnemyBegin(e, a) ==
    LET t == [e EXCEPT !.jump_cd = Cooldown(@, a.dt),
                       !.coyote_timer = Cooldown(@, a.dt),
                       !.wall_stick_timer = Cooldown(@, a.dt),
                       !.dash_cd = Cooldown(@, a.dt),
                       !.facing = IF a.move_dir # 0 THEN a.move_dir ELSE @,
                       !.dash_dir = IF a.move_dir # 0 THEN a.move_dir ELSE @]
        should_dash == a.blocked_by_enemy \/ (a.gap_ahead /\ a.far)
    IN  IF /\ ~t.dashing
           /\ should_dash
           /\ t.dash_cd <= 0
           /\ (t.on_ground \/ t.air_dashes_left > 0)
           /\ a.move_dir # 0
        THEN StartDash(t, a)
        ELSE t

\* a faulty variant of DashGravity: a dashing enemy is not pulled down
DashGravityOffMut(e, d) == IF e.dashing THEN 0 ELSE SpeedGain(GRAVITY, d)

\* line 139: the speed the gravity adds, dashing or not
DashGravity(e, d) == SpeedGain(GRAVITY, d)

\* lines 131-140: the dash timer or the run speed, then the gravity
EnemyDrive(e, a) ==
    LET m == IF e.dashing
             THEN [e EXCEPT !.dash_timer = @ - a.dt,
                            !.dashing = (e.dash_timer - a.dt > 0),
                            !.dash_moved = TRUE]
             ELSE [e EXCEPT !.vel[1] = a.move_dir * Speed(EnemyKit.speed)]
    IN  [m EXCEPT !.vel[2] = Min(Speed(MAX_FALL_SPEED), @ + DashGravity(e, a.dt))]

\* the loop of _move_x from solid i on
RECURSIVE EnemyCollideX(_, _, _)
EnemyCollideX(e, solids, i) ==
    IF i > Len(solids) THEN e
    ELSE IF ~RectsCollide(EnemyRect(e), solids[i]) THEN EnemyCollideX(e, solids, i + 1)
    ELSE LET s == solids[i]
             x == IF e.vel[1] > 0 THEN (s.x - EnemyRadius) * PUnits.pos
                  ELSE IF e.vel[1] < 0 THEN (s.x + s.w + EnemyRadius) * PUnits.pos
                  ELSE e.pos[1]
         IN  EnemyCollideX([e EXCEPT !.pos[1] = x, !.vel[1] = 0, !.hit_x = TRUE],
                           solids, i + 1)

\* the loop of _move_y from solid i on
RECURSIVE EnemyCollideY(_, _, _)
EnemyCollideY(e, solids, i) ==
    IF i > Len(solids) THEN e
    ELSE IF ~RectsCollide(EnemyRect(e), solids[i]) THEN EnemyCollideY(e, solids, i + 1)
    ELSE LET s == solids[i]
         IN  EnemyCollideY(
                 IF e.vel[2] > 0
                 THEN [e EXCEPT !.pos[2] = (s.y - EnemyRadius) * PUnits.pos,
                                !.vel[2] = 0,
                                !.on_ground = TRUE,
                                !.hit_y = TRUE,
                                !.hit_down = TRUE]
                 ELSE IF e.vel[2] < 0
                 THEN [e EXCEPT !.pos[2] = (s.y + s.h + EnemyRadius) * PUnits.pos,
                                !.vel[2] = 0,
                                !.hit_y = TRUE]
                 ELSE [e EXCEPT !.hit_y = TRUE],
                 solids, i + 1)

\* lines 143-145: _move_x, then _move_y
EnemyMove(e, d, solids) ==
    LET ex == EnemyCollideX([e EXCEPT !.pos[1] = @ + e.vel[1] * d,
                                      !.pre_vx = e.vel[1],
                                      !.vx_used = e.vel[1]],
                            solids, 1)
        ey == EnemyCollideY([ex EXCEPT !.pos[2] = @ + ex.vel[2] * d,
                                       !.on_ground = FALSE,
                                       !.vy_used = ex.vel[2],
                                       !.moved = TRUE],
                            solids, 1)
    IN  [ey EXCEPT !.landed = ey.on_ground]

\* _update_wall_flags: probes one px to the left and to the right
WallFlags(e, solids) ==
    LET r == EnemyRect(e)
        l == \E i \in DOMAIN solids : RectsCollide([r EXCEPT !.x = @ - 1], solids[i])
        rt == \E i \in DOMAIN solids : RectsCollide([r EXCEPT !.x = @ + 1], solids[i])
    IN  [e EXCEPT !.on_wall_left = ~e.on_ground /\ l,
                  !.on_wall_right = ~e.on_ground /\ rt]

\* lines 151-164: the coyote timer, the stocks given back on landing, the
\* wall stick and the wall slide
EnemySettle(e, a) ==
    LET c == IF e.on_ground
             THEN [e EXCEPT !.coyote_timer = EnemyKit.coyote_time] ELSE e
        r == IF c.on_ground /\ ~c.was_on_ground
             THEN [c EXCEPT !.jumps_left = EnemyKit.max_jumps,
                            !.air_dashes_left = EnemyKit.air_dashes_max,
                            !.stocks_reset = TRUE]
             ELSE c
        on_wall == r.on_wall_left \/ r.on_wall_right
        st == IF on_wall /\ ~r.on_ground /\ r.vel[2] > 0
              THEN [r EXCEPT !.wall_stick_timer = EnemyKit.wall_stick_time] ELSE r
    IN  IF /\ ~st.on_ground
           /\ st.vel[2] > 0
           /\ \/ (st.on_wall_left /\ a.move_dir < 0)
              \/ (st.on_wall_right /\ a.move_dir > 0)
        THEN [st EXCEPT !.vel[2] = Min(@, Speed(EnemyKit.wall_slide_speed))]
        ELSE st

\* a faulty variant of WallJumpLeaves: a wall jump always takes a charge
WallJumpLeavesMut(n) == Max(0, n - 1)

\* lines 221-222: the jump charges _do_wall_jump leaves
WallJumpLeaves(n) == IF n = EnemyKit.max_jumps THEN n - 1 ELSE n

\* lines 214-222: _do_wall_jump
DoWallJump(e) ==
    [e EXCEPT !.vel = <<IF e.on_wall_left THEN Speed(EnemyKit.wall_jump_x)
                        ELSE IF e.on_wall_right THEN -Speed(EnemyKit.wall_jump_x)
                        ELSE e.vel[1],
                        -Speed(EnemyKit.wall_jump_y)>>,
              !.wall_stick_timer = 0,
              !.jumps_left = WallJumpLeaves(@),
              !.jump_cd = EnemyKit.wall_jump_cd,
              !.wall_jumped = TRUE]

\* lines 209-212: _do_jump, and the cooldown of lines 187 and 191
DoJump(e) ==
    [e EXCEPT !.vel[2] = -Speed(EnemyKit.jump_speed),
              !.on_ground = FALSE,
              !.jumps_left = @ - 1,
              !.jump_cd = EnemyKit.jump_cd,
              !.jumped = TRUE]

\* lines 167-193: the decision to jump
EnemyJump(e, a) ==
    LET blocked_by_wall == Abs(e.pre_vx) > Speed(1) /\ e.vel[1] = 0
        want_jump == \/ blocked_by_wall
                     \/ a.above_close
                     \/ a.gap_ahead
                     \/ (a.blocked_by_enemy /\ ~e.dashing)
        j == IF ~(want_jump /\ e.jump_cd <= 0) THEN e
             ELSE IF /\ ~e.on_ground
                     /\ (e.on_wall_left \/ e.on_wall_right)
                     /\ e.wall_stick_timer > 0
             THEN DoWallJump(e)
             ELSE IF (e.on_ground \/ e.coyote_timer > 0) /\ e.jumps_left > 0
             THEN [DoJump(e) EXCEPT !.coyote_timer = 0]
             ELSE IF ~e.on_ground /\ e.jumps_left > 0
             THEN DoJump(e)
             ELSE e
    IN  [j EXCEPT !.was_on_ground = j.on_ground]

NoEnemyEvents ==
    [dash_started |-> FALSE, dash_moved |-> FALSE, wall_jumped |-> FALSE,
     jumped |-> FALSE, moved |-> FALSE, hit_x |-> FALSE, hit_y |-> FALSE,
     hit_down |-> FALSE, landed |-> FALSE, stocks_reset |-> FALSE,
     pre_vx |-> 0, vx_used |-> 0, vy_used |-> 0]

EnemyFields ==
    {"pos", "vel", "on_ground", "was_on_ground", "facing", "dash_dir",
     "jumps_left", "coyote_timer", "jump_cd", "on_wall_left", "on_wall_right",
     "wall_stick_timer", "dashing", "dash_timer", "dash_cd", "air_dashes_left"}

\* Enemy.update(dt, player_rect, solids, grid, neighbors) of a live enemy
Enemy_update(e, a, solids) ==
    EnemyJump(
        EnemySettle(
            WallFlags(EnemyMove(EnemyDrive(EnemyBegin(e @@ NoEnemyEvents, a), a),
                                a.dt, solids),
                      solids),
            a),
        a)

\* Enemy.__init__ at (x, y)
NewEnemy(x, y) ==
    [pos |-> <<x * PUnits.pos, y * PUnits.pos>>, vel |-> <<0, 0>>,
     on_ground |-> FALSE, was_on_ground |-> FALSE, facing |-> 1,
     dash_dir |-> 1, jumps_left |-> EnemyKit.max_jumps, coyote_timer |-> 0,
     jump_cd |-> 0, on_wall_left |-> FALSE, on_wall_right |-> FALSE,
     wall_stick_timer |-> 0, dashing |-> FALSE, dash_timer |-> 0,
     dash_cd |-> 0, air_dashes_left |-> EnemyKit.air_dashes_max]
MaxEnemyUpdates == 1

\* what an enemy perceives in a call: a gap or an enemy in front only when
\* it wants to move, the distance of the player only when it matters
EnemyArgs ==
    {a \in [dt : PlayerDts, move_dir : MoveAxes, blocked_by_enemy : BOOLEAN,
            gap_ahead : BOOLEAN, far : BOOLEAN, above_close : BOOLEAN] :
        /\ (a.blocked_by_enemy \/ a.gap_ahead) => a.move_dir # 0
        /\ a.far => a.gap_ahead}

\* where the enemy's centre is when it stands on the floor, and when it
\* touches the wall
EnemyFloorY == SceneSolids[4].y - EnemyRadius
EnemyWallX == SceneSolids[2].x - EnemyRadius

\* the enemies update is called on: at rest on the floor; falling just above
\* it; rising; sliding down the wall; and in a dash, on the floor or in the
\* air.  Each of them under the ceiling tile and against the wall.
EnemyStates ==
    {[NewEnemy(x, EnemyFloorY) EXCEPT !.on_ground = TRUE,
                                      !.was_on_ground = TRUE] :
        x \in {20, EnemyWallX}}
    \cup
    {[NewEnemy(x, EnemyFloorY - 2) EXCEPT !.vel[2] = Speed(400),
                                          !.jumps_left = j,
                                          !.air_dashes_left = ad] :
        x \in {20, EnemyWallX}, j \in 0..EnemyKit.max_jumps, ad \in 0..1}
    \cup
    {[NewEnemy(x, EnemyFloorY - 12) EXCEPT !.vel[2] = -Speed(300),
                                           !.jumps_left = j,
                                           !.coyote_timer = c] :
        x \in {20, EnemyWallX}, j \in 0..EnemyKit.max_jumps, c \in {0, 84}}
    \cup
    {[NewEnemy(EnemyWallX, EnemyFloorY - 12) EXCEPT
          !.vel[2] = Speed(200),
          !.on_wall_right = TRUE,
          !.wall_stick_timer = EnemyKit.wall_stick_time,
          !.jumps_left = j] :
        j \in 0..EnemyKit.max_jumps}
    \cup
    {[NewEnemy(x, y) EXCEPT !.dashing = TRUE,
                            !.dash_timer = t,
                            !.dash_cd = EnemyKit.dash_cooldown - 16,
                            !.vel = <<Speed(EnemyKit.dash_speed), 0>>,
                            !.on_ground = (y = EnemyFloorY),
                            !.was_on_ground = (y = EnemyFloorY),
                            !.air_dashes_left = IF y = EnemyFloorY THEN 1 ELSE 0] :
        x \in {20, EnemyWallX}, y \in {EnemyFloorY, EnemyFloorY - 12},
        t \in {EnemyKit.dash_time - 16, 12}}

InitA ==
    /\ phys = <<GRAVITY, JUMP_SPEED, MOVE_SPEED>>
    /\ env = NoEnv
    /\ grid = NoGrid
    /\ cols = 0
    /\ rows = 0
    /\ attempt = 0
    /\ fails = 0
    /\ rng = 0
    /\ biome = Biomes[1]
    /\ rooms = <<>>
    /\ todo = 0
    /\ main_path = <<>>
    /\ spawn = <<0, 0>>
    /\ safety = 0
    /\ tries = 0
    /\ forced = FALSE
    /\ result = NoGrid
    /\ fallback = FALSE
    /\ goal = GoalRow
    /\ q = <<>>
    /\ visited = {}
    /\ accepted = {}
    /\ verdict = "none"
    /\ FlowIdle
    /\ LevelIdle
    /\ KinIdle
    /\ LateIdle
    /\ keys = 0
    /\ \/ /\ pc = "p_call"
          /\ pl \in PlayerStates
          /\ twin = pl
          /\ en = <<>>
          /\ act = [n |-> 0, kind |-> "Player"]
       \/ /\ pc = "e_call"
          /\ en \in EnemyStates
          /\ pl = <<>>
          /\ twin = <<>>
          /\ act = [n |-> 0, kind |-> "Enemy"]

\* a call of Player.update: the arguments, and the move axis that
\* pygame.key.get_pressed() gives at the call (lines 110-118)
Update ==
    /\ pc = "p_call"
    /\ act.n < MaxUpdates
    /\ \E a \in PlayerArgs :
          \E w \in {Player_update(pl, a, SceneSolids)} :
              /\ pl' = FieldsOf(w)
              /\ twin' = pl
              /\ keys' = a.move_x
              /\ act' = [n |-> act.n + 1, kind |-> "Player", args |-> a,
                         ev |-> EventsOf(w), was |-> pl, replayed |-> FALSE]
              /\ pc' = IF w.raised THEN "p_raised" ELSE "p_call"
    /\ UNCHANGED en
    /\ UNCHANGED <<generatorVars, validatorVars, flowVars, levelVars, kin, lateVars>>

\* a faulty variant of ReplayDt: the second call sees the time that has passed
ReplayDtDriftMut(a) == a.dt + act.n

\* the dt of the second call: the same argument
ReplayDt(a) == a.dt

\* the same call again, on the copy of the player as it was and with the
\* same arguments, the keyboard being in whatever state it is in by then
Replay ==
    /\ pc \in {"p_call", "p_raised"}
    /\ act.n > 0
    /\ ~act.replayed
    /\ \E k \in MoveAxes :
          \E w \in {Player_update(twin,
                                  [act.args EXCEPT !.move_x = k,
                                                   !.dt = ReplayDt(act.args)],
                                  SceneSolids)} :
              /\ keys' = k
              /\ twin' = FieldsOf(w)
              /\ act' = [act EXCEPT !.replayed = TRUE]
    /\ UNCHANGED <<pl, en, pc>>
    /\ UNCHANGED <<generatorVars, validatorVars, flowVars, levelVars, kin, lateVars>>

\* a call of Enemy.update
EnemyUpdate ==
    /\ pc = "e_call"
    /\ act.n < MaxEnemyUpdates
    /\ \E a \in EnemyArgs :
          \E w \in {Enemy_update(en, a, SceneSolids)} :
              /\ en' = [f \in EnemyFields |-> w[f]]
              /\ act' = [n |-> act.n + 1, kind |-> "Enemy", args |-> a,
                         ev |-> [f \in DOMAIN NoEnemyEvents |-> w[f]],
                         was |-> en]
    /\ UNCHANGED <<pl, twin, keys, pc>>
    /\ UNCHANGED <<generatorVars, validatorVars, flowVars, levelVars, kin, lateVars>>

NextA ==
    \/ Update
    \/ Replay
    \/ EnemyUpdate

SpecA == InitA /\ [][NextA]_vars


(***************************************************************************)
(* Tilemap (world/tilemap.py): the rect lists of __init__ and              *)
(* get_solid_rects_near.  A rect is a record [x, y, w, h] in px.           *)
(***************************************************************************)
\* Tilemap.SOLIDS
SOLIDS == {"#", "C", "M"}

\* the rows and the columns of a grid, as __init__ counts them
TmRows(g) == Cardinality(DOMAIN g)

TmCols(g) == IF TmRows(g) = 0 THEN 0 ELSE Cardinality(DOMAIN g[0])

\* lines 36-40: the spike rects, in row-major order
SpikeRects(g) ==
    {TileRect(x, y) : <<x, y>> \in {c \in (0..TmCols(g) - 1) \X (0..TmRows(g) - 1) :
                                        g[c[2]][c[1]] = "^"}}

\* seq[i] of a Python sequence of n items: <<the index read>>, a negative
\* i counting from the end, or <<>> for IndexError
PyIndex(i, n) ==
    IF 0 <= i /\ i < n THEN <<i>>
    ELSE IF -n <= i /\ i < 0 THEN <<n + i>>
    ELSE <<>>

\* a faulty variant of WindowLow: the window is not clamped at 0
WindowLowUnclampedMut(edge, pad_tiles) == (edge \div TILE_SIZE) - pad_tiles

\* lines 74 and 76: the first column (row) of the window
WindowLow(edge, pad_tiles) == Max(0, (edge \div TILE_SIZE) - pad_tiles)

\* lines 75 and 77: the last column (row) of the window
WindowHigh(edge, pad_tiles, n) == Min(n - 1, (edge \div TILE_SIZE) + pad_tiles)

\* the cells lines 80-84 visit, in their order
RECURSIVE WindowCells(_, _, _, _, _)
WindowCells(cx, cy, min_cx, max_cx, max_cy) ==
    IF cy > max_cy \/ min_cx > max_cx THEN <<>>
    ELSE IF cx > max_cx THEN WindowCells(min_cx, cy + 1, min_cx, max_cx, max_cy)
    ELSE <<<<cx, cy>>>> \o WindowCells(cx + 1, cy, min_cx, max_cx, max_cy)

\* the loop of lines 80-84 over the cells from the i-th on
RECURSIVE CollectSolids(_, _, _, _)
CollectSolids(g, cells, i, out) ==
    IF i > Len(cells) THEN [out |-> out, raised |-> FALSE]
    ELSE LET cy == PyIndex(cells[i][2], TmRows(g))
             cx == PyIndex(cells[i][1], TmCols(g))
         IN  IF cy = <<>> \/ cx = <<>> THEN [out |-> out, raised |-> TRUE]
             ELSE CollectSolids(g, cells, i + 1,
                                IF g[cy[1]][cx[1]] \in SOLIDS
                                THEN Append(out, TileRect(cells[i][1], cells[i][2]))
                                ELSE out)

\* get_solid_rects_near(rect, pad_tiles)
GetSolidRectsNear(g, rect, pad_tiles) ==
    LET min_cx == WindowLow(rect.x, pad_tiles)
        max_cx == WindowHigh(rect.x + rect.w, pad_tiles, TmCols(g))
        min_cy == WindowLow(rect.y, pad_tiles)
        max_cy == WindowHigh(rect.y + rect.h, pad_tiles, TmRows(g))
    IN  CollectSolids(g, WindowCells(min_cx, min_cy, min_cx, max_cx, max_cy), 1, <<>>)

\* the grids a Tilemap is built on: every grid of TmDims cells of empty,
\* spike and solid tiles, for each of the solid characters, and the grid
\* without rows
TmDims == [cols |-> 3, rows |-> 2]

TmGrids ==
    {[y \in 0..TmDims.rows - 1 |->
         [x \in 0..TmDims.cols - 1 |->
             IF f[y][x] = "#" THEN ch ELSE f[y][x]]] :
        f \in [0..TmDims.rows - 1 -> [0..TmDims.cols - 1 -> {".", "^", "#"}]],
        ch \in SOLIDS}
    \cup {<<>>}

MaxPad == 2

\* the rects asked about: the rect of a player and the rect of an enemy,
\* inside the grid, across its edges and away from it
TmRects ==
    {[x |-> x, y |-> y, w |-> s[1], h |-> s[2]] :
        x \in {-200, -30, 10, 60, 130, 300},
        y \in {-200, -20, 30, 70, 300},
        s \in {<<PlayerKit.w, PlayerKit.h>>}}

InitT ==
    /\ phys = <<GRAVITY, JUMP_SPEED, MOVE_SPEED>>
    /\ env = NoEnv
    /\ grid = NoGrid
    /\ cols = 0
    /\ rows = 0
    /\ attempt = 0
    /\ fails = 0
    /\ rng = 0
    /\ biome = Biomes[1]
    /\ rooms = <<>>
    /\ todo = 0
    /\ main_path = <<>>
    /\ spawn = <<0, 0>>
    /\ safety = 0
    /\ tries = 0
    /\ forced = FALSE
    /\ result = NoGrid
    /\ fallback = FALSE
    /\ goal = GoalRow
    /\ q = <<>>
    /\ visited = {}
    /\ accepted = {}
    /\ verdict = "none"
    /\ FlowIdle
    /\ LevelIdle
    /\ KinIdle
    /\ AgentIdle
    /\ mc = <<>>
    /\ run = <<>>
    /\ walk = <<>>
    /\ hp = <<>>
    /\ wave = <<>>
    /\ pc = "t_ready"
    /\ \E g \in TmGrids : tm = [grid |-> g, asked |-> FALSE]

\* a call of get_solid_rects_near on the tilemap
SolidRectsNear ==
    /\ pc = "t_ready"
    /\ \E rect \in TmRects, pad_tiles \in 0..MaxPad :
          \E res \in {GetSolidRectsNear(tm.grid, rect, pad_tiles)} :
              tm' = [grid |-> tm.grid, asked |-> TRUE, rect |-> rect,
                     pad_tiles |-> pad_tiles, out |-> res.out,
                     raised |-> res.raised]
    /\ pc' = "t_done"
    /\ UNCHANGED <<mc, run, walk, hp, wave>>
    /\ UNCHANGED <<generatorVars, validatorVars, flowVars, levelVars, kin, agentVars>>

NextT == SolidRectsNear

SpecT == InitT /\ [][NextT]_vars

(***************************************************************************)
(* Player._move_and_collide on its own (player.py 249-276): a player that  *)
(* overlaps no solid is moved one step against a list of tile rects, in    *)
(* every order of the list.                                                *)
(***************************************************************************)
\* nothing of the generator, the validator, the flow field, the level, the
\* kinematic step and the agents is in use
EarlyIdle ==
    /\ phys = <<GRAVITY, JUMP_SPEED, MOVE_SPEED>>
    /\ env = NoEnv
    /\ grid = NoGrid
    /\ cols = 0
    /\ rows = 0
    /\ attempt = 0
    /\ fails = 0
    /\ rng = 0
    /\ biome = Biomes[1]
    /\ rooms = <<>>
    /\ todo = 0
    /\ main_path = <<>>
    /\ spawn = <<0, 0>>
    /\ safety = 0
    /\ tries = 0
    /\ forced = FALSE
    /\ result = NoGrid
    /\ fallback = FALSE
    /\ goal = GoalRow
    /\ q = <<>>
    /\ visited = {}
    /\ accepted = {}
    /\ verdict = "none"
    /\ FlowIdle
    /\ LevelIdle
    /\ KinIdle
    /\ AgentIdle

\* the most tiles in the list of solids
MaxNear == 3

\* the tiles the solids are taken from: the cells of a square of 3 x 3 tiles
McCells == (0..2) \X (0..2)

\* the lists of at most MaxNear different tiles of McCells, in every order
McSolids ==
    {s \in UNION {[1..n -> McCells] : n \in 0..MaxNear} :
        \A i, j \in DOMAIN s : s[i] = s[j] => i = j}

\* where the rect starts: flush with a tile edge, or in the open
McStarts == {26, 48, 62} \X {14, 30, 48, 60}

\* the speeds of a step, in px/s: the fastest dash the power-ups allow
\* (560 + 160) and a wall jump in x; the fastest jump (820 + 200) and the
\* fastest fall in y
McSpeeds == {-720, 0, 520} \X {-1020, 0, 1200}

\* a faulty variant of McSteps: dt is not clamped to 1/30 s
McStepsLongMut == {16, 100} \X {0, PUnits.pos \div 2}

\* dt in ms (Level.update hands on at most 1/30 s) and the fraction of a
\* pixel pos is ahead of rect, in units of position
McSteps == {16, 33} \X {0, PUnits.pos \div 2}

\* the tile rects of a list of cells
RectsOf(s) == [i \in DOMAIN s |-> TileRect(s[i][1], s[i][2])]

\* the rect of p overlaps one of the solids
Overlaps(p, solids) ==
    \E i \in DOMAIN solids : RectsCollide(PlayerRect(p), solids[i])

InitM ==
    /\ EarlyIdle
    /\ tm = <<>>
    /\ run = <<>>
    /\ walk = <<>>
    /\ hp = <<>>
    /\ wave = <<>>
    /\ pc = "m_ready"
    /\ \E s \in McSolids, at \in McStarts :
          /\ ~Overlaps(NewPlayer(at[1], at[2]), RectsOf(s))
          /\ mc = [solids |-> RectsOf(s), was |-> NewPlayer(at[1], at[2]),
                   now |-> NewPlayer(at[1], at[2]), called |-> FALSE]

\* a call of _move_and_collide(dt, solids)
MoveCollide ==
    /\ pc = "m_ready"
    /\ \E v \in McSpeeds, st \in McSteps :
          \E p \in {[mc.was EXCEPT !.vel = <<Speed(v[1]), Speed(v[2])>>,
                                   !.pos = <<@[1] + st[2], @[2] + st[2]>>]} :
              mc' = [solids |-> mc.solids, was |-> p, called |-> TRUE,
                     dt |-> st[1],
                     now |-> MoveAndCollide(p @@ NoEvents, st[1], mc.solids)]
    /\ pc' = "m_done"
    /\ UNCHANGED <<tm, run, walk, hp, wave>>
    /\ UNCHANGED <<generatorVars, validatorVars, flowVars, levelVars, kin, agentVars>>

NextM == MoveCollide

SpecM == InitM /\ [][NextM]_vars

(***************************************************************************)
(* Player.update called frame after frame on a player that stands on the   *)
(* floor, with a count of what it has done since the last call that ended  *)
(* on the ground.  A call that raises ends the run.                        *)
(***************************************************************************)
\* the most calls of a run
MaxRunUpdates == 3

\* nothing done since the ground
NoTally == [jumps |-> 0, air_dashes |-> 0, wall_jumped |-> FALSE]

\* the tally after a call that began with the player p and ended as w
Tally(t, p, w) ==
    [jumps |-> t.jumps + (IF w.jumped THEN 1 ELSE 0),
     air_dashes |-> t.air_dashes + (IF w.dash_started /\ ~p.on_ground THEN 1 ELSE 0),
     wall_jumped |-> t.wall_jumped \/ w.wall_jumped]

\* the players a run starts with: standing on the floor with every charge,
\* in the open and against the wall, pos.y within its pixel
RunStarts ==
    {[NewPlayer(x, FloorY) EXCEPT !.on_ground = TRUE, !.pos[2] = @ + frac] :
        x \in {20, WallX}, frac \in {0, (3 * PUnits.pos) \div 5}}

InitJ ==
    /\ EarlyIdle
    /\ tm = <<>>
    /\ mc = <<>>
    /\ walk = <<>>
    /\ hp = <<>>
    /\ wave = <<>>
    /\ pc = "j_call"
    /\ \E p \in RunStarts :
          run = [p |-> p, n |-> 0, since |-> NoTally, open |-> NoTally,
                 grounded |-> TRUE, raised |-> FALSE]

\* the next call of Player.update of the run.  since: the tally of the calls
\* after the last one that ended on the ground, this one included; open:
\* the same tally, emptied if this call ended on the ground.
RunUpdate ==
    /\ pc = "j_call"
    /\ run.n < MaxRunUpdates
    /\ \E a \in PlayerArgs :
          \E w \in {Player_update(run.p, a, SceneSolids)} :
              \E t \in {Tally(run.open, run.p, w)} :
                  /\ run' = [p |-> FieldsOf(w), n |-> run.n + 1, since |-> t,
                             open |-> IF w.on_ground /\ ~w.raised THEN NoTally ELSE t,
                             grounded |-> w.on_ground /\ ~w.raised,
                             raised |-> w.raised]
                  /\ pc' = IF w.raised THEN "j_raised" ELSE "j_call"
    /\ UNCHANGED <<tm, mc, walk, hp, wave>>
    /\ UNCHANGED <<generatorVars, validatorVars, flowVars, levelVars, kin, agentVars>>

NextJ == RunUpdate

SpecJ == InitJ /\ [][NextJ]_vars

(***************************************************************************)
(* An agent that follows the flow field: it is put on a reached cell after *)
(* a successful rebuild and steps, call after call, to the neighbouring    *)
(* cell direction_at_world points at from the centre of its cell.          *)
(***************************************************************************)
\* the most cells of a trail
MaxTrail == 12

\* the sign of a component of a direction
Sgn(v) == IF v > 0 THEN 1 ELSE IF v < 0 THEN -1 ELSE 0

\* the world coordinate of the centre of tile t
TileCentre(t) == t * TILE_SIZE + TILE_SIZE \div 2

\* the agent is put on a cell the last rebuild reached
Place ==
    /\ pc = "flow"
    /\ valid
    /\ rebuilt = "ok"
    /\ \E x \in 0..(cols - 1), y \in 0..(rows - 1) :
          /\ dist[y][x] >= 0
          /\ walk' = [trail |-> <<<<x, y>>>>, stopped |-> FALSE]
    /\ pc' = "walking"
    /\ UNCHANGED <<tm, mc, run, hp, wave>>
    /\ UNCHANGED <<generatorVars, validatorVars, flowVars, levelVars, kin, agentVars>>

\* one step of the agent: it asks direction_at_world at the centre of its
\* cell and moves one cell that way; a zero vector stops it
Follow ==
    /\ pc = "walking"
    /\ Len(walk.trail) < MaxTrail
    /\ \E c \in {walk.trail[Len(walk.trail)]} :
          \E v \in {DirectionAtWorld(cols, rows, TileCentre(c[1]), TileCentre(c[2]))} :
              /\ query' = <<TileCentre(c[1]), TileCentre(c[2])>>
              /\ dir' = v
              /\ IF v = <<0, 0>>
                 THEN /\ walk' = [walk EXCEPT !.stopped = TRUE]
                      /\ pc' = "stopped"
                 ELSE /\ walk' = [walk EXCEPT !.trail =
                                     Append(@, <<c[1] + Sgn(v[1]), c[2] + Sgn(v[2])>>)]
                      /\ pc' = pc
    /\ UNCHANGED <<dist, target_tile, valid, rebuilt, req>>
    /\ UNCHANGED <<tm, mc, run, hp, wave>>
    /\ UNCHANGED <<generatorVars, validatorVars, levelVars, kin, agentVars>>

NextG ==
    \/ Rebuild
    \/ Place
    \/ Follow

SpecG == InitF /\ [][NextG]_vars

\* the agent keeps stepping
FairSpecG == SpecG /\ WF_vars(Follow)

(***************************************************************************)
(* The player's health (core/abilities.py, Player.take_damage, the head of *)
(* Player.update and the places of Level.update that touch health).  Times *)
(* are in 1/HUnit s; the values the power-ups scale are exact fractions    *)
(* <<numerator, denominator>>.                                             *)
(***************************************************************************)
HUnit == 1000000

RECURSIVE Gcd(_, _)
Gcd(a, b) == IF b = 0 THEN a ELSE Gcd(b, a % b)

\* the fraction n/d in lowest terms (n >= 0, d > 0)
Reduced(n, d) == <<n \div Gcd(n, d), d \div Gcd(n, d)>>

RECURSIVE Power(_, _)
Power(b, k) == IF k = 0 THEN 1 ELSE b * Power(b, k - 1)

\* diminishing_returns(stacks, per_stack, cap) for 0 <= per_stack <= cap:
\* cap * (1 - (1 - per_stack / cap) ** stacks)
DiminishingReturns(stacks, per_stack, cap) ==
    IF stacks <= 0 THEN <<0, 1>>
    ELSE LET base == Reduced(cap[1] * per_stack[2] - per_stack[1] * cap[2],
                             cap[1] * per_stack[2])
             bn == Power(base[1], stacks)
             bd == Power(base[2], stacks)
         IN  Reduced(cap[1] * (bd - bn), cap[2] * bd)

\* the power-ups health depends on
HealthPowerups == {"hp_up", "armor", "regen", "spike_resist", "tenacity"}

\* Abilities() without stacks
NoStacks == [k \in HealthPowerups |-> 0]

\* Abilities.max_health
AbMaxHealth(st) ==
    LET bonus == DiminishingReturns(st["hp_up"], <<20, 1>>, <<140, 1>>)
    IN  100 + bonus[1] \div bonus[2]

\* Abilities.damage_taken_mult, as a fraction
AbDamageTakenMult(st) ==
    LET red == DiminishingReturns(st["armor"], <<6, 100>>, <<45, 100>>)
    IN  IF 100 * (red[2] - red[1]) < 55 * red[2] THEN <<55, 100>>
        ELSE <<red[2] - red[1], red[2]>>

\* Abilities.regen_per_sec, as a fraction
AbRegenPerSec(st) == DiminishingReturns(st["regen"], <<3, 2>>, <<6, 1>>)

\* Abilities.spike_damage
AbSpikeDamage(st) ==
    LET red == DiminishingReturns(st["spike_resist"], <<5, 1>>, <<22, 1>>)
    IN  Max(8, (30 * red[2] - red[1]) \div red[2])

\* Abilities.i_frames, in 1/HUnit s
AbIFrames(st) ==
    LET bonus == DiminishingReturns(st["tenacity"], <<5, 100>>, <<20, 100>>)
    IN  (18 * HUnit) \div 100 + (bonus[1] * HUnit) \div bonus[2]

\* dmg = int(max(1, int(amount) * damage_taken_mult))
DamageOf(amount, mult) == Max(1, (amount * mult[1]) \div mult[2])

\* a faulty variant of Invulnerable: a hurt player can be hurt again at once
InvulnerableNeverMut(h) == FALSE

\* line 63: if self.hurt_timer > 0.0
Invulnerable(h) == h.hurt_timer > 0

\* Player.take_damage(amount) on the health record h: the fields after the
\* call and what the call returned
TakeDamage(h, amount) ==
    IF Invulnerable(h)
    THEN [h EXCEPT !.took = [called |-> TRUE, returned |-> FALSE,
                             health |-> h.health, hurt_timer |-> h.hurt_timer]]
    ELSE [h EXCEPT !.health = Max(0, @ - DamageOf(amount, AbDamageTakenMult(h.stacks))),
                   !.hurt_timer = AbIFrames(h.stacks),
                   !.took = [called |-> TRUE, returned |-> TRUE,
                             health |-> h.health, hurt_timer |-> h.hurt_timer]]

\* a faulty variant of Regen: the fraction of a point is rounded up
RegenCeilMut(h, d) ==
    LET r == AbRegenPerSec(h.stacks)
    IN  IF r[1] > 0 /\ h.health > 0
        THEN Min(h.max_health, h.health + (r[1] * d + r[2] * HUnit - 1) \div (r[2] * HUnit))
        ELSE h.health

\* lines 105-107: health = min(max_health, int(health + regen_per_sec * dt))
Regen(h, d) ==
    LET r == AbRegenPerSec(h.stacks)
    IN  IF r[1] > 0 /\ h.health > 0
        THEN Min(h.max_health, h.health + (r[1] * d) \div (r[2] * HUnit))
        ELSE h.health

\* lines 89-107 of Player.update: the cap, the hurt timer and the regen
HealthHead(h, d) ==
    LET c == IF AbMaxHealth(h.stacks) # h.max_health
             THEN [h EXCEPT !.max_health = AbMaxHealth(h.stacks),
                            !.health = Min(@, AbMaxHealth(h.stacks))]
             ELSE h
        t == IF c.hurt_timer > 0
             THEN [c EXCEPT !.hurt_timer = Max(0, @ - d)] ELSE c
    IN  [t EXCEPT !.health = Regen(t, d)]

\* no call of take_damage
NoCall == [called |-> FALSE, returned |-> FALSE, health |-> 0, hurt_timer |-> 0]

\* the most stacks the player collects in all
MaxStacks == 2

\* dt as Level.update hands it on: 0.016 s and 1/30 s
HealthDts == {(16 * HUnit) \div 1000, HUnit \div 30}

\* Player.__init__: health = max_health of Abilities(), hurt_timer = 0
InitH ==
    /\ EarlyIdle
    /\ tm = <<>>
    /\ mc = <<>>
    /\ run = <<>>
    /\ walk = <<>>
    /\ wave = <<>>
    /\ pc = "h_update"
    /\ hp = [health |-> AbMaxHealth(NoStacks), max_health |-> AbMaxHealth(NoStacks),
             hurt_timer |-> 0, stacks |-> NoStacks, took |-> NoCall,
             ended |-> FALSE, healed |-> FALSE]

\* Level.update up to the end of player.update: the call raises when the
\* movement part of Player.update does (then the frame is abandoned)
HealthUpdate ==
    /\ pc = "h_update"
    /\ \E d \in HealthDts, raises \in BOOLEAN :
          /\ hp' = [HealthHead(hp, d) EXCEPT !.took = NoCall, !.ended = FALSE,
                                             !.healed = FALSE]
          /\ pc' = IF raises THEN "h_raised" ELSE "h_spikes"
    /\ UNCHANGED <<tm, mc, run, walk, wave>>
    /\ UNCHANGED <<generatorVars, validatorVars, flowVars, levelVars, kin, agentVars>>

\* level.py 195-199: a spike under the player's rect hurts it
HealthSpikes ==
    /\ pc = "h_spikes"
    /\ \E touches \in BOOLEAN :
          hp' = IF touches THEN TakeDamage(hp, AbSpikeDamage(hp.stacks)) ELSE hp
    /\ pc' = "h_powerups"
    /\ UNCHANGED <<tm, mc, run, walk, wave>>
    /\ UNCHANGED <<generatorVars, validatorVars, flowVars, levelVars, kin, agentVars>>

\* level.py 211-220: a power-up the player touches is added to its stacks
HealthPowerup ==
    /\ pc = "h_powerups"
    /\ \/ hp' = [hp EXCEPT !.took = NoCall]
       \/ \E k \in HealthPowerups :
             /\ hp.stacks["hp_up"] + hp.stacks["armor"] + hp.stacks["regen"]
                  + hp.stacks["spike_resist"] + hp.stacks["tenacity"] < MaxStacks
             /\ \E st \in {[hp.stacks EXCEPT ![k] = @ + 1]} :
                   hp' = [hp EXCEPT !.stacks = st,
                                    !.max_health = AbMaxHealth(st),
                                    !.health = Min(@, AbMaxHealth(st)),
                                    !.took = NoCall]
    /\ pc' = "h_respawn"
    /\ UNCHANGED <<tm, mc, run, walk, wave>>
    /\ UNCHANGED <<generatorVars, validatorVars, flowVars, levelVars, kin, agentVars>>

\* level.py 278-282 and _respawn_player: the end of Level.update
HealthRespawn ==
    /\ pc = "h_respawn"
    /\ hp' = IF hp.health <= 0
             THEN [hp EXCEPT !.health = hp.max_health, !.hurt_timer = 0,
                             !.ended = TRUE, !.healed = TRUE]
             ELSE [hp EXCEPT !.ended = TRUE]
    /\ pc' = "h_update"
    /\ UNCHANGED <<tm, mc, run, walk, wave>>
    /\ UNCHANGED <<generatorVars, validatorVars, flowVars, levelVars, kin, agentVars>>

NextH ==
    \/ HealthUpdate
    \/ HealthSpikes
    \/ HealthPowerup
    \/ HealthRespawn

SpecH == InitH /\ [][NextH]_vars

\* the game loop keeps calling Level.update, which runs to its end unless
\* it raises
FairSpecH == SpecH /\ WF_vars(NextH)

(***************************************************************************)
(* WaveManager (world/waves.py).  Times are in ms.  The record wave holds  *)
(* the manager's fields, the length of wave_defs, the last call of update  *)
(* (its arguments, the fields before it and what it returned), the number  *)
(* of True returns so far and whether a call has ended a wave since the    *)
(* last of them.                                                           *)
(***************************************************************************)
\* the most entries of wave_defs
MaxWaves == 2

\* cooldown=1.2 of __init__
WaveCooldown == 1200

\* self.timer = 0.6 of __init__
WaveFirstDelay == 600

\* the dt and the alive_enemy_count update is called with
WaveDts == {17, 400}
WaveAlive == {0, 3}

\* a faulty variant of IsFinished: the manager never finishes
IsFinishedNeverMut(w) == FALSE

\* is_finished()
IsFinished(w) == w.wave_index >= w.n

\* the fields of the manager
WaveFields(w) == [wave_index |-> w.wave_index, active |-> w.active, timer |-> w.timer]

\* update(dt, alive_enemy_count): the fields after the call and the value
\* returned
WaveUpdate(w, d, alive) ==
    IF IsFinished(w) THEN [w EXCEPT !.returned = FALSE]
    ELSE IF ~w.active
    THEN IF w.timer - d <= 0
         THEN [w EXCEPT !.timer = @ - d, !.active = TRUE, !.returned = TRUE]
         ELSE [w EXCEPT !.timer = @ - d, !.returned = FALSE]
    ELSE IF alive <= 0
    THEN [w EXCEPT !.active = FALSE, !.timer = WaveCooldown,
                   !.wave_index = @ + 1, !.returned = FALSE]
    ELSE [w EXCEPT !.returned = FALSE]

\* WaveManager(wave_defs) for a list of 0..MaxWaves entries
InitW ==
    /\ EarlyIdle
    /\ tm = <<>>
    /\ mc = <<>>
    /\ run = <<>>
    /\ walk = <<>>
    /\ hp = <<>>
    /\ pc = "w_idle"
    /\ \E n \in 0..MaxWaves :
          wave = [n |-> n, wave_index |-> 0, active |-> FALSE,
                  timer |-> WaveFirstDelay, returned |-> FALSE, called |-> FALSE,
                  was |-> [wave_index |-> 0, active |-> FALSE, timer |-> WaveFirstDelay],
                  dt |-> 0, alive |-> 0, trues |-> 0, ended |-> FALSE,
                  ended_before |-> FALSE]

\* a call of update(dt, alive_enemy_count)
WaveManagerUpdate ==
    /\ pc = "w_idle"
    /\ \E d \in WaveDts, alive \in WaveAlive :
          \E w \in {WaveUpdate(wave, d, alive)} :
              wave' = [w EXCEPT !.called = TRUE,
                                !.was = WaveFields(wave),
                                !.dt = d,
                                !.alive = alive,
                                !.trues = IF w.returned THEN @ + 1 ELSE @,
                                !.ended_before = wave.ended,
                                !.ended = IF w.returned THEN FALSE
                                          ELSE @ \/ w.wave_index # wave.wave_index]
    /\ UNCHANGED pc
    /\ UNCHANGED <<tm, mc, run, walk, hp>>
    /\ UNCHANGED <<generatorVars, validatorVars, flowVars, levelVars, kin, agentVars>>

\* mark_wave_started()
MarkWaveStarted ==
    /\ pc = "w_idle"
    /\ wave' = [wave EXCEPT !.active = TRUE, !.called = FALSE]
    /\ UNCHANGED pc
    /\ UNCHANGED <<tm, mc, run, walk, hp>>
    /\ UNCHANGED <<generatorVars, validatorVars, flowVars, levelVars, kin, agentVars>>

NextW ==
    \/ WaveManagerUpdate
    \/ MarkWaveStarted

SpecW == InitW /\ [][NextW]_vars

(***************************************************************************)
(* Properties                                                              *)
(***************************************************************************)
\* the spawn cell of the returned grid
ResultSpawn == IF fallback THEN <<4, rows - 5>> ELSE spawn

\* C1: every grid load_demo_level returns, generated or fallback, is a grid
\* on which the validator, called with the envelope, goal row 4 and the
\* grid's spawn cell, returns true.
C1_ReturnedGridValidates ==
    pc = "done" => ReachableValidator(result, ResultSpawn, 4, env)

\* at most 60 attempts, each critical-path loop at most 500 steps of at most
\* 160 candidates; what is returned is the grid of the first attempt the
\* validator accepts (every earlier attempt was rejected) or, after 60
\* rejections, the fallback grid of (cols, rows)
C2_Bounded ==
    /\ attempt <= 60
    /\ safety <= 500
    /\ tries <= 160
    /\ pc = "done" =>
          IF fallback
          THEN fails = 60 /\ result = FallbackGrid
          ELSE /\ fails = attempt
               /\ attempt < 60
               /\ result = grid
               /\ ReachableValidator(grid, spawn, 4, env)

\* C2: load_demo_level always ends, after at most 60 attempts, by returning
\* a grid (that of the first accepted attempt, or the fallback grid): the
\* call never ends without one.
C2_AlwaysReturns == C2_Bounded /\ pc # "raised"

\* C2 on a grid of at least 37 columns and 18 rows: the bounds hold and the
\* call returns a grid; on every grid the call ends.
C2_Terminates ==
    /\ []C2_Bounded
    /\ <>Halted
    /\ (cols >= 37 /\ rows >= 18) => <>(pc = "done")

\* C3: in every returned grid all of row 0, the last row, column 0 and the
\* last column are solid.
C3_BorderSolid ==
    pc = "done" =>
        \A y \in 0..(rows - 1) : \A x \in 0..(cols - 1) :
            (y = 0 \/ y = rows - 1 \/ x = 0 \/ x = cols - 1)
                => IsSolid(result[y][x])

\* C4: every returned grid holds exactly one spawn cell 'P'.
C4_ExactlyOneSpawn ==
    pc = "done" =>
        Cardinality({c \in (0..(cols - 1)) \X (0..(rows - 1)) :
                        result[c[2]][c[1]] = "P"}) = 1

\* C7: consecutive platforms of the critical path are min_gap_tiles to
\* max_gap_tiles rows apart, the later one higher, and every platform of
\* the path lies on a row >= 2.
C7_PathGaps ==
    \A i \in 1..Len(main_path) :
        /\ main_path[i][1] >= 2
        /\ i < Len(main_path) =>
              /\ main_path[i][1] - main_path[i + 1][1] >= env.min_gap_tiles
              /\ main_path[i][1] - main_path[i + 1][1] <= env.max_gap_tiles
C7_Witness == pc = "done" /\ ~fallback /\ Len(main_path) >= 4

\* distance between the nearest columns of two platforms (row, x0, x1)
HorizDist(a, b) ==
    IF Min(a[3], b[3]) > Max(a[2], b[2]) THEN 0
    ELSE Max(b[2] - (a[3] - 1), a[2] - (b[3] - 1))

\* C8: consecutive platforms of the critical path, far-side placements
\* included, are horizontally within max_dx_single of each other when their
\* gap is at most approx_single_h_tiles, within max_dx_double otherwise.
C8_PathWithinReach ==
    \A i \in 1..(Len(main_path) - 1) :
        LET gap == main_path[i][1] - main_path[i + 1][1]
        IN  HorizDist(main_path[i], main_path[i + 1]) <=
                IF gap <= env.approx_single_h_tiles
                THEN env.max_dx_single ELSE env.max_dx_double

\* C9: in every generated grid each hazard '^' has a solid tile directly
\* beneath it and lies at squared distance >= 25 from the spawn cell, and
\* the spawn cell is not a hazard.
C9_Hazards ==
    (pc \in {"validate", "done"} /\ ~fallback) =>
        LET g == IF pc = "done" THEN result ELSE grid
        IN  /\ g[spawn[2]][spawn[1]] # "^"
            /\ \A y \in 0..(rows - 1) : \A x \in 0..(cols - 1) :
                  g[y][x] = "^" =>
                      /\ y + 1 <= rows - 1
                      /\ IsSolid(g[y + 1][x])
                      /\ (x - spawn[1]) * (x - spawn[1])
                           + (y - spawn[2]) * (y - spawn[2]) >= 25
C9_Witness ==
    /\ pc = "done"
    /\ ~fallback
    /\ \E y \in 0..(rows - 1) : \E x \in 0..(cols - 1) : result[y][x] = "^"

\* C10: for positive gravity, jump speed and run speed the envelope has a
\* positive single jump height, min_gap_tiles >= 1, max_gap_tiles >=
\* min_gap_tiles, max_dx_single >= 3 and max_dx_double >= max_dx_single + 2.
C10_EnvelopeFloors ==
    pc = "attempt" =>
        /\ env.h1[1] > 0 /\ env.h1[2] > 0
        /\ env.min_gap_tiles >= 1
        /\ env.max_gap_tiles >= env.min_gap_tiles
        /\ env.max_dx_single >= 3
        /\ env.max_dx_double >= env.max_dx_single + 2
\* an envelope whose unfloored min_gap_tiles and max_dx_single are too small
C10_Witness ==
    /\ pc = "attempt"
    /\ RoundHalfEven(3 * phys[2] * phys[2], 8 * phys[1] * TILE_SIZE) = 0
    /\ IntTrunc(2 * phys[3] * phys[2], phys[1] * TILE_SIZE) < 3
    /\ env.min_gap_tiles = 1
    /\ env.max_dx_single = 3

\* the verdict of a finished search, against the closure of the accepted
\* edges from the start cell
C5_Verdict ==
    pc = "v_done" =>
        LET tops == TopSurfaceCells(grid)
            nearest == {t \in Range(tops) : \A u \in Range(tops) :
                           Manhattan(t, spawn) <= Manhattan(u, spawn)}
            start == NearestTop(tops, spawn)
        IN  /\ verdict \in {"true", "false"}
            /\ tops = <<>> => verdict = "false"
            /\ tops # <<>> =>
                  /\ start \in nearest
                  /\ verdict = "true" <=>
                        \E t \in Visitable(env, tops, {start}) : t[2] <= goal
                  /\ verdict = "false" => q = <<>>
\* a step of the validator leaves the grid as it was
C5_GridUntouched == pc \in {"v_start", "v_bfs"} => (grid' = grid)

\* C5: the validator returns true exactly when a surface cell with row <=
\* goal_y_max can be reached through accepted edges from the start cell, a
\* surface cell of least Manhattan distance to the spawn; it returns false
\* when there is no surface cell or the queue runs empty; it leaves the grid
\* as it was.
C5_ValidatorDecidesReachability ==
    ([]C5_Verdict) /\ [][C5_GridUntouched]_vars
\* the goal was reached over at least one edge
C5_Witness ==
    /\ pc = "v_done"
    /\ verdict = "true"
    /\ Cardinality(visited) >= 2
    /\ ~GoalTest(NearestTop(TopSurfaceCells(grid), spawn), goal)

\* C6 as stated: an accepted edge to a higher cell has
\* 0.70 * min_gap_tiles <= dy <= 1.20 * max_gap_tiles and a horizontal delta
\* within max_dx_single (dy <= approx_single_h_tiles) or max_dx_double.
C6_EdgeBandExact ==
    \A p \in accepted :
        LET dy == p[1][2] - p[2][2]
        IN  dy > 0 =>
              /\ 10 * dy >= 7 * env.min_gap_tiles
              /\ 10 * dy <= 12 * env.max_gap_tiles
              /\ Abs(p[2][1] - p[1][1]) <=
                    IF dy <= env.approx_single_h_tiles
                    THEN env.max_dx_single ELSE env.max_dx_double

\* C6 amended: the lower bound is the truncated int(0.70 * min_gap_tiles)
\* (the upper one int(1.20 * max_gap_tiles)); no upward edge with dy below
\* int(0.70 * min_gap_tiles) is accepted.
C6_EdgeBandTruncated ==
    \A p \in accepted :
        LET dy == p[1][2] - p[2][2]
        IN  dy > 0 =>
              /\ dy >= (7 * env.min_gap_tiles) \div 10
              /\ dy <= (12 * env.max_gap_tiles) \div 10
              /\ Abs(p[2][1] - p[1][1]) <=
                    IF dy <= env.approx_single_h_tiles
                    THEN env.max_dx_single ELSE env.max_dx_double
\* an accepted upward edge, and an upward candidate the band rejected
C6_Witness ==
    /\ \E p \in accepted : p[1][2] - p[2][2] > 0
    /\ \E a \in visited : \E b \in Range(TopSurfaceCells(grid)) :
          /\ a[2] - b[2] > 0
          /\ b[2] >= 1
          /\ a[2] - b[2] < (7 * env.min_gap_tiles) \div 10
          /\ <<a, b>> \notin accepted
          /\ \E p \in accepted : p[1] = a

\* the cells of the grid
Cells(c, r) == (0..(c - 1)) \X (0..(r - 1))

\* the walkable cells one 4-connected step from a cell of F
Around(g, c, r, F) ==
    {w \in Cells(c, r) :
        /\ ~IsBlocked(g, w[1], w[2])
        /\ \E f \in F : Abs(w[1] - f[1]) + Abs(w[2] - f[2]) = 1}

\* the length of the shortest 4-connected walkable path from every cell
\* to a cell of the set known to lie k steps from the target (-1: no path):
\* known maps the cells closer than k, front is the set of cells at k
RECURSIVE PathLengths(_, _, _, _, _, _)
PathLengths(g, c, r, known, front, k) ==
    IF front = {} THEN [w \in Cells(c, r) |-> IF w \in DOMAIN known THEN known[w] ELSE -1]
    ELSE LET now == [w \in DOMAIN known \cup front |->
                        IF w \in DOMAIN known THEN known[w] ELSE k]
         IN  PathLengths(g, c, r, now,
                         Around(g, c, r, front) \ DOMAIN now, k + 1)

\* C11: after a successful rebuild, whatever field the earlier rebuilds
\* left, the target holds 0, every walkable cell with a 4-connected walkable
\* path to the target holds the length of its shortest such path, and every
\* solid or unreachable cell holds -1
C11_ExactDistances ==
    (pc = "flow" /\ rebuilt = "ok") =>
        /\ valid
        /\ dist[target_tile[2]][target_tile[1]] = 0
        /\ LET len == PathLengths(grid, cols, rows, <<>>, {target_tile}, 0)
           IN  \A w \in Cells(cols, rows) :
                  dist[w[2]][w[1]] =
                      IF IsBlocked(grid, w[1], w[2]) THEN -1 ELSE len[w]

\* a field with a solid cell, a walkable cell cut off from the target and
\* a cell two steps or more away, built over an earlier field
C11_Witness ==
    /\ rebuilt = "ok"
    /\ target_tile # <<0, 0>>
    /\ \E w \in Cells(cols, rows) :
          ~IsBlocked(grid, w[1], w[2]) /\ dist[w[2]][w[1]] = -1
    /\ \E w \in Cells(cols, rows) : dist[w[2]][w[1]] >= 2

\* the tile direction_at_world looks up for the last query
QueryTile == <<query[1] \div TILE_SIZE, query[2] \div TILE_SIZE>>

\* C12: after a successful rebuild, direction_at_world asked at a position
\* inside the cell the field is rooted at (the target's cell, or the cell it
\* was snapped to) returns the zero vector
C12_ZeroAtTarget ==
    (pc = "asked" /\ rebuilt = "ok" /\ QueryTile = target_tile)
        => dir = <<0, 0>>

\* a query at the last pixel of the root cell of a field whose target was
\* snapped, the root having a walkable neighbour
C12_Witness ==
    /\ pc = "asked"
    /\ rebuilt = "ok"
    /\ req # target_tile
    /\ QueryTile = target_tile
    /\ query[1] % TILE_SIZE = TILE_SIZE - 1
    /\ \E w \in Cells(cols, rows) : dist[w[2]][w[1]] = 1
    /\ dir = <<0, 0>>

\* the offsets of the in-grid neighbours of the queried tile that hold a
\* distance (>= 0)
ReachedAround ==
    {o \in Range(FlowNeighbors8) :
        /\ InGrid(cols, rows, QueryTile[1] + o[1], QueryTile[2] + o[2])
        /\ dist[QueryTile[2] + o[2]][QueryTile[1] + o[1]] >= 0}

DistAtOffset(o) == dist[QueryTile[2] + o[2]][QueryTile[1] + o[1]]

\* v (in 1/Unit) points the way of the offset o and has length 1, up to the
\* last digit kept
IsUnitToward(v, o) ==
    /\ v[1] * o[2] = v[2] * o[1]
    /\ v[1] * o[1] + v[2] * o[2] > 0
    /\ v[1] * v[1] + v[2] * v[2] <= Unit * Unit
    /\ v[1] * v[1] + v[2] * v[2] >= (Unit - 1) * (Unit - 1)

\* C13: asked at a reached cell of distance > 0, direction_at_world returns
\* the normalized offset toward an in-grid neighbour whose distance (>= 0)
\* is the smallest among the 8 neighbours and below the cell's own; when a
\* 4-connected and a diagonal neighbour tie for the smallest, the neighbour
\* is the 4-connected one
C13_Downhill ==
    (/\ pc = "asked"
     /\ valid
     /\ InGrid(cols, rows, QueryTile[1], QueryTile[2])
     /\ dist[QueryTile[2]][QueryTile[1]] > 0)
        => \E o \in ReachedAround :
              /\ \A n \in ReachedAround : DistAtOffset(o) <= DistAtOffset(n)
              /\ DistAtOffset(o) < dist[QueryTile[2]][QueryTile[1]]
              /\ IsUnitToward(dir, o)
              /\ (\E n \in ReachedAround :
                      /\ DistAtOffset(n) = DistAtOffset(o)
                      /\ (n[1] = 0 \/ n[2] = 0))
                  => (o[1] = 0 \/ o[2] = 0)

\* a query answered with a diagonal, the diagonal neighbour being two
\* steps closer to the target than the queried cell
C13_Witness ==
    /\ pc = "asked"
    /\ valid
    /\ InGrid(cols, rows, QueryTile[1], QueryTile[2])
    /\ dist[QueryTile[2]][QueryTile[1]] >= 2
    /\ dir[1] # 0
    /\ dir[2] # 0

\* the queried tile is outside the grid, solid, or without a 4-connected
\* walkable path to the cell the field is rooted at
NothingToFollow ==
    \/ ~InGrid(cols, rows, QueryTile[1], QueryTile[2])
    \/ IsBlocked(grid, QueryTile[1], QueryTile[2])
    \/ /\ rebuilt = "ok"
       /\ PathLengths(grid, cols, rows, <<>>, {target_tile}, 0)[QueryTile] = -1

\* C14: direction_at_world returns the zero vector when the position is
\* outside the grid (negative coordinates included), in a solid or
\* unreached cell, when rebuild was never called, and when the last rebuild
\* failed (the field of an earlier rebuild is not served)
C14_ZeroWithoutField ==
    (pc = "asked" /\ (rebuilt \in {"never", "failed"} \/ NothingToFollow))
        => dir = <<0, 0>>

\* a query after a failed rebuild, at a cell that holds a distance > 0
\* from the rebuild before it
C14_Witness ==
    /\ pc = "asked"
    /\ rebuilt = "failed"
    /\ dist # NoDist
    /\ InGrid(cols, rows, QueryTile[1], QueryTile[2])
    /\ dist[QueryTile[2]][QueryTile[1]] > 0
    /\ dir = <<0, 0>>

\* the ring of cell w around cell t (Chebyshev distance)
Ring(w, t) == Max(Abs(w[1] - t[1]), Abs(w[2] - t[2]))

\* the walkable cells within ring distance SearchRadius of the cell asked for
OpenNearReq ==
    {w \in Cells(cols, rows) :
        ~IsBlocked(grid, w[1], w[2]) /\ Ring(w, req) <= SearchRadius}

\* C15: when the (grid-clamped) target cell of rebuild is solid, the field
\* is rooted at a walkable cell within ring distance 8 of it such that no
\* walkable cell lies in a smaller ring; with no walkable cell within ring
\* distance 8 the field is marked invalid
C15_SnapToNearestRing ==
    (rebuilt # "never" /\ IsBlocked(grid, req[1], req[2])) =>
        IF OpenNearReq = {}
        THEN rebuilt = "failed" /\ ~valid
        ELSE /\ rebuilt = "ok"
             /\ valid
             /\ target_tile \in OpenNearReq
             /\ \A w \in OpenNearReq : Ring(target_tile, req) <= Ring(w, req)

\* a solid target snapped to a cell in the outermost ring searched
C15_Witness ==
    /\ rebuilt = "ok"
    /\ IsBlocked(grid, req[1], req[2])
    /\ Ring(target_tile, req) = SearchRadius
    /\ dist[target_tile[2]][target_tile[1]] = 0

\* the distance of the centres of enemies i and j of the list es
CentreDist(es, i, j) ==
    Length(<<es[j].pos[1] - es[i].pos[1], es[j].pos[2] - es[i].pos[2]>>)

\* the sum of the radii of enemies i and j
MinDist(es, i, j) == (es[i].radius + es[j].radius) * Sub

\* the tolerance allowed to a separated pair: a thousandth of a pixel
Tolerance == Sub \div 1000

\* enemies i and j are both live
BothLive(es, i, j) == ~es[i].dead /\ ~es[j].dead

\* C17: two live agents whose circles overlap (centres closer than the sum
\* of the radii, coincident and nearly coincident centres included) are, after
\* one separation pass, at least the sum of the radii apart, up to the
\* tolerance, and a second pass moves neither
C17_PairSeparatedAndStable ==
    (Len(enemies) = 2 /\ BothLive(enemies, 1, 2)) =>
        /\ (pc = "s_1" /\ CentreDist(before[1], 1, 2) < MinDist(enemies, 1, 2))
              => CentreDist(enemies, 1, 2) >= MinDist(enemies, 1, 2) - Tolerance
        /\ (pc = "s_2" /\ CentreDist(before[1], 1, 2) < MinDist(enemies, 1, 2))
              => enemies = before[2]

\* C18 (for agents that begin more than a thousandth of a pixel apart, so
\* that the degenerate branch of C17 plays no part): whatever the number of
\* live agents, after one separation pass every two of them are at least
\* the sum of their radii apart, up to the tolerance
C18_NoOverlapAfterPass ==
    (/\ pc = "s_1"
     /\ \A i, j \in 1..Len(enemies) :
           (i < j /\ BothLive(enemies, i, j))
               => CentreDist(before[1], i, j) > DegenerateDist)
        => \A i, j \in 1..Len(enemies) :
              (i < j /\ BothLive(enemies, i, j))
                  => CentreDist(enemies, i, j) >= MinDist(enemies, i, j) - Tolerance

\* two live agents 10 px apart are exactly the sum of their radii apart
\* after one pass and stay where they are in the second
NonDegeneratePairSettles ==
    (/\ Len(enemies) = 2
     /\ BothLive(enemies, 1, 2)
     /\ pc \in {"s_1", "s_2"}
     /\ CentreDist(before[1], 1, 2) > DegenerateDist
     /\ CentreDist(before[1], 1, 2) < MinDist(enemies, 1, 2))
        => /\ CentreDist(enemies, 1, 2) = MinDist(enemies, 1, 2)
           /\ pc = "s_2" => enemies = before[2]

\* step a of the running frame has been taken, and before any step b
Precedes(a, b) ==
    \A i \in 1..Len(steps) :
        steps[i] = b => \E j \in 1..(i - 1) : steps[j] = a

\* C16: within a frame the player's update comes first, then the check that
\* may rebuild the flow field (so that a rebuild is given the player's
\* position after the frame's move), then the enemies' updates, then the
\* separation pass
C16_FrameOrder ==
    /\ Precedes("player", "flow")
    /\ Precedes("flow", "enemies")
    /\ Precedes("enemies", "separation")
    /\ (pc = "l_frame" /\ steps # <<>> /\ flow_src # <<>>)
          => /\ flow_src[1] = player
             /\ target_tile = <<player \div TILE_SIZE, PlayerCentreY \div TILE_SIZE>>

\* enemy i is listed in the bucket of the cell it is in
InOwnBucket(i) ==
    i \in Range(BucketGet(buckets, BucketKey(enemies[i].pos)))

\* the number of times the pair {i, j} was tested by the last pass
TimesTested(i, j) == Cardinality({k \in 1..Len(tested) : tested[k] = {i, j}})

\* C19: when the separation pass reads the bucket map every live agent is
\* listed in the bucket of the cell it is in, and so every two live agents
\* whose circles overlap at that moment are tested by the pass, once
C19_BucketsCurrent ==
    /\ pc = "l_separate" =>
          \A i \in 1..Len(enemies) : ~enemies[i].dead => InOwnBucket(i)
    /\ (pc = "l_frame" /\ steps # <<>>) =>
          \A i, j \in 1..Len(enemies) :
              (/\ i < j
               /\ BothLive(before[1], i, j)
               /\ CentreDist(before[1], i, j) < MinDist(before[1], i, j))
                  => TimesTested(i, j) = 1

\* C20: the dt given to Player.update and Enemy.update is never above
\* 1/30 s, and no step takes a body from entirely on one side of a solid one
\* tile thick to entirely on its other side: the collision pass of the step
\* detects the solid
C20_NoTunnelling ==
    /\ dt <= MaxStep
    /\ (kin # <<>> /\ kin.n > 0) =>
          /\ ~(kin.from = "above" /\ kin.to = "below")
          /\ ~(kin.from = "below" /\ kin.to = "above")

(***************************************************************************)
(* Player.update and Enemy.update, under SpecA.  act holds the arguments   *)
(* of the last call, the player or the enemy as it was before it, and what *)
(* the call did.                                                           *)
(***************************************************************************)
PlayerCalled == act.kind = "Player" /\ act.n > 0

EnemyCalled == act.kind = "Enemy" /\ act.n > 0

\* C21: the collision pass is resolved axis by axis, a collision on an axis
\* leaves that axis's velocity zero, and the pass leaves on_ground true if
\* and only if its Y pass collided with a solid while the vertical velocity
\* was downward (> 0): a Player.update that moved ends with on_ground equal
\* to "the Y pass hit downward", and Enemy._move_y leaves on_ground equal to
\* the same; an upward or purely horizontal collision never sets the flag.
\* (Enemy.update may jump after its collision pass: _do_jump then clears
\* the flag, and nothing after the pass sets it.)
C21_GroundedIffDownwardHit ==
    /\ (PlayerCalled /\ act.ev.moved) =>
          /\ pl.on_ground <=> act.ev.hit_down
          /\ act.ev.hit_x => pl.vel[1] = 0
          /\ act.ev.hit_y => pl.vel[2] = 0
    /\ EnemyCalled =>
          /\ act.ev.landed <=> act.ev.hit_down
          /\ en.on_ground <=> (act.ev.hit_down /\ ~act.ev.jumped)
          /\ (act.ev.hit_x /\ ~act.ev.wall_jumped) => en.vel[1] = 0
          /\ (act.ev.hit_y /\ ~act.ev.jumped /\ ~act.ev.wall_jumped) => en.vel[2] = 0

\* a jump from the floor that hits the ceiling tile: a collision of the Y
\* pass going up, which leaves the player off the ground
C21_Witness ==
    /\ PlayerCalled
    /\ act.was.on_ground
    /\ act.ev.jumped
    /\ act.ev.hit_y
    /\ ~act.ev.hit_down
    /\ ~pl.on_ground
    /\ pl.vel[2] = 0

\* a player standing still on the floor: the rect's bottom on the tile's
\* top, pos on the pixel, no velocity, the grounded flag set
AtRest(p) ==
    /\ p.on_ground
    /\ ~p.dashing
    /\ p.vel = <<0, 0>>
    /\ p.rect[2] = FloorY
    /\ p.pos = <<p.rect[1] * PUnits.pos, p.rect[2] * PUnits.pos>>

\* a call with no input
NoInput(a) ==
    /\ a.move_x = 0
    /\ ~a.jump_pressed
    /\ ~a.jump_released
    /\ ~a.dash_pressed

\* C22: a player at rest on top of a platform (bottom edge exactly on the
\* solid's top, zero velocity, on_ground true) that is updated once with no
\* input and dt = 0.016 s is still on_ground after the call, and its rect is
\* where it was.
C22_RestStaysGrounded ==
    (/\ PlayerCalled
     /\ AtRest(act.was)
     /\ NoInput(act.args)
     /\ act.args.dt = 16)
    => /\ ~act.ev.raised
       /\ pl.on_ground
       /\ pl.rect = act.was.rect

\* C23: landing gives the charges back: whenever a Player.update returns
\* with on_ground true, jumps_left is max_jumps - 1 and air_dashes_left is
\* air_dashes_max; whenever an Enemy.update takes the enemy from not on the
\* ground to on the ground, its jumps_left and air_dashes_left are at their
\* maxima, and the collision pass that lands an enemy that was not on the
\* ground is followed by the reset.
C23_LandingResetsCharges ==
    /\ (PlayerCalled /\ ~act.ev.raised /\ pl.on_ground) =>
          /\ pl.jumps_left = Max(0, PlayerKit.max_jumps - 1)
          /\ pl.air_dashes_left = PlayerKit.air_dashes_max
    /\ (EnemyCalled /\ ~act.was.on_ground /\ en.on_ground) =>
          /\ en.jumps_left = EnemyKit.max_jumps
          /\ en.air_dashes_left = EnemyKit.air_dashes_max
    /\ (EnemyCalled /\ ~act.was.was_on_ground /\ act.ev.landed) =>
          act.ev.stocks_reset

\* an enemy that had spent its jumps and its air dash falls onto the floor
C23_Witness ==
    /\ EnemyCalled
    /\ ~act.was.on_ground
    /\ act.was.jumps_left = 0
    /\ act.was.air_dashes_left = 0
    /\ en.on_ground
    /\ en.jumps_left = EnemyKit.max_jumps
    /\ en.air_dashes_left = EnemyKit.air_dashes_max

\* a call on a player in the air that is not dashing, with jump pressed, no
\* dash asked for and no wall jump taken
AirJumpAsked ==
    /\ PlayerCalled
    /\ ~act.was.on_ground
    /\ ~act.was.dashing
    /\ act.args.jump_pressed
    /\ ~act.args.dash_pressed
    /\ ~act.ev.wall_jumped

\* C24: coyote time: a jump asked for in the air within 0.10 s of the last
\* update on the ground is executed as a ground jump, jumps_left staying as
\* it is; once the window has elapsed a jump in the air is executed only if
\* jumps_left > 0, and takes one from it.
C24_CoyoteJump ==
    AirJumpAsked =>
        IF act.was.coyote - act.args.dt > 0
        THEN act.ev.jumped /\ pl.jumps_left = act.was.jumps_left
        ELSE IF act.was.jumps_left > 0
        THEN act.ev.jumped /\ pl.jumps_left = act.was.jumps_left - 1
        ELSE ~act.ev.jumped

\* C25: the input buffer: a press of jump made in the air with no jump
\* available (no coyote time, jumps_left = 0, no wall contact) is kept for
\* 0.12 s while the player goes on falling; on the ground the first update
\* that is not a dash and finds the press less than 0.12 s old jumps without
\* a new press, and an older press never triggers a jump.
C25_JumpBuffer ==
    /\ (/\ PlayerCalled
        /\ ~act.was.on_ground
        /\ ~act.was.dashing
        /\ act.args.jump_pressed
        /\ ~act.args.dash_pressed
        /\ act.was.coyote - act.args.dt <= 0
        /\ act.was.jumps_left = 0
        /\ pl.wall_dir = 0
        /\ ~act.ev.wall_jumped)
       => /\ ~act.ev.raised
          /\ ~act.ev.jumped
          /\ act.ev.moved
          /\ pl.jump_buffer = PlayerKit.jump_buffer
    /\ (/\ PlayerCalled
        /\ act.was.on_ground
        /\ ~act.was.dashing
        /\ ~act.args.jump_pressed
        /\ ~act.args.dash_pressed)
       => (act.ev.jumped <=> act.was.jump_buffer - act.args.dt > 0)

\* the jumps the agent of the last call has left
JumpsNow == IF act.kind = "Player" THEN pl.jumps_left ELSE en.jumps_left

\* C26 as stated: a wall jump consumes a jump charge: after any wall jump,
\* of the player or of an enemy, jumps_left is never higher than before the
\* wall jump, and is one lower whenever it was > 0.
C26_WallJumpTakesCharge ==
    (act.n > 0 /\ act.ev.wall_jumped) =>
        /\ JumpsNow <= act.was.jumps_left
        /\ act.was.jumps_left > 0 => JumpsNow = act.was.jumps_left - 1

\* C26 as the code has it: a wall jump of the player sets jumps_left to
\* max(0, max_jumps - 1) whatever it was, so it can leave more jumps than
\* there were; a wall jump of an enemy takes one jump only from a full
\* stock (jumps_left = max_jumps) and leaves any other jumps_left as it is.
C26_WallJumpCharges ==
    /\ (PlayerCalled /\ act.ev.wall_jumped) =>
          pl.jumps_left = Max(0, PlayerKit.max_jumps - 1)
    /\ (EnemyCalled /\ act.ev.wall_jumped) =>
          en.jumps_left = IF act.was.jumps_left = EnemyKit.max_jumps
                          THEN EnemyKit.max_jumps - 1
                          ELSE act.was.jumps_left

\* an enemy sliding down the wall with one jump left jumps off the wall and
\* still has that jump
C26_Witness ==
    /\ EnemyCalled
    /\ act.ev.wall_jumped
    /\ act.was.jumps_left = 1
    /\ en.jumps_left = 1
    /\ en.vel[2] < 0

\* C27: whenever the player is in the air, not dashing, in wall contact
\* (wall_dir # 0) and descending, the update moves it with a vertical
\* velocity that does not exceed wall_slide_speed.
C27_WallSlideSpeed ==
    (/\ PlayerCalled
     /\ ~act.was.on_ground
     /\ ~act.was.dashing
     /\ ~act.args.dash_pressed
     /\ act.was.vel[2] > 0
     /\ pl.wall_dir # 0)
    => /\ act.ev.moved
       /\ act.ev.vy_used <= Speed(PlayerKit.wall_slide_speed)

\* C28: while Player.dashing is true the dash overrides everything else: an
\* update of a dashing player applies neither gravity nor a jump nor a wall
\* jump and moves the player with the velocity it had; a player that is
\* dashing after an update has the velocity (dash_dir * dash_speed, 0),
\* unless a tile collision has zeroed an axis, and time left on its dash
\* timer; and the dash ends, starting its cooldown, once dash_time has
\* elapsed.
C28_DashOverrides ==
    /\ (PlayerCalled /\ act.was.dashing) =>
          /\ ~act.ev.raised
          /\ ~act.ev.gravity_applied
          /\ ~act.ev.jumped
          /\ ~act.ev.wall_jumped
          /\ act.ev.hit_x \/ act.ev.vx_used = act.was.vel[1]
          /\ act.ev.vy_used = act.was.vel[2]
          /\ pl.dashing <=> act.was.dash_timer - act.args.dt > 0
          /\ ~pl.dashing => pl.dash_cd = PlayerKit.dash_cooldown
    /\ (PlayerCalled /\ pl.dashing) =>
          /\ \/ pl.vel[1] = pl.dash_dir * Speed(PlayerKit.dash_speed)
             \/ act.ev.hit_x /\ pl.vel[1] = 0
          /\ pl.vel[2] = 0
          /\ pl.dash_timer > 0

\* the vertical velocity of the enemy of the last call when its movement
\* began: zero if the call started a dash, else what it was
DashVyBefore == IF act.ev.dash_started THEN 0 ELSE act.was.vel[2]

\* the horizontal velocity of the dash: the one _start_dash gave in this
\* call, or the one the dashing enemy already had
DashVx ==
    IF act.ev.dash_started
    THEN act.args.move_dir * Speed(EnemyKit.dash_speed)
    ELSE act.was.vel[1]

\* C29 as stated: enemies obey the dash rule of the player: while
\* Enemy.dashing is true, gravity is not applied to the enemy's vertical
\* velocity and its horizontal velocity stays at the dash velocity.
C29_EnemyDashNoGravity ==
    (EnemyCalled /\ act.ev.dash_moved) =>
        /\ act.ev.vy_used = DashVyBefore
        /\ act.ev.vx_used = DashVx

\* C29 as the code has it: an update of a dashing enemy keeps the
\* horizontal velocity of the dash, and adds the gravity to the vertical
\* velocity as in any other update (GRAVITY * dt, capped at
\* MAX_FALL_SPEED): only the start of the dash clears the vertical
\* velocity.
C29_EnemyDashGravity ==
    (EnemyCalled /\ act.ev.dash_moved) =>
        /\ act.ev.vy_used = Min(Speed(MAX_FALL_SPEED),
                                DashVyBefore + SpeedGain(GRAVITY, act.args.dt))
        /\ act.ev.vx_used = DashVx

\* a dashing enemy in the air is moved with the dash speed and pulled down
C29_Witness ==
    /\ EnemyCalled
    /\ act.was.dashing
    /\ ~act.was.on_ground
    /\ act.ev.dash_moved
    /\ act.ev.vx_used = Speed(EnemyKit.dash_speed)
    /\ act.ev.vy_used = SpeedGain(GRAVITY, act.args.dt)
    /\ en.pos[2] > act.was.pos[2]

TmCells == (0..TmCols(tm.grid) - 1) \X (0..TmRows(tm.grid) - 1)

\* the cells of the grid in the tile window of the rect asked about,
\* padded by pad_tiles
InWindow(c) ==
    /\ (tm.rect.x \div TILE_SIZE) - tm.pad_tiles <= c[1]
    /\ c[1] <= ((tm.rect.x + tm.rect.w) \div TILE_SIZE) + tm.pad_tiles
    /\ (tm.rect.y \div TILE_SIZE) - tm.pad_tiles <= c[2]
    /\ c[2] <= ((tm.rect.y + tm.rect.h) \div TILE_SIZE) + tm.pad_tiles

TileAt(c) == tm.grid[c[2]][c[1]]

\* C31: get_solid_rects_near(rect) returns exactly the tile rects of the
\* solid cells ('#', 'C', 'M') inside rect's tile window padded by
\* pad_tiles and clamped to the grid, each once; every solid tile that
\* intersects rect is among them; no spike or empty cell is ever returned,
\* and no returned rect is one of the tilemap's spike rects; and a rect
\* partly or wholly outside the grid yields a list, possibly empty, without
\* raising.
C31_SolidRectsNear ==
    tm # <<>> /\ tm.asked =>
        /\ ~tm.raised
        /\ Range(tm.out) =
              {TileRect(c[1], c[2]) : c \in {k \in TmCells :
                                                InWindow(k) /\ TileAt(k) \in SOLIDS}}
        /\ \A i, j \in DOMAIN tm.out : tm.out[i] = tm.out[j] => i = j
        /\ \A c \in TmCells :
              (TileAt(c) \in SOLIDS /\ RectsCollide(tm.rect, TileRect(c[1], c[2])))
                  => TileRect(c[1], c[2]) \in Range(tm.out)
        /\ \A c \in TmCells :
              TileAt(c) \notin SOLIDS => TileRect(c[1], c[2]) \notin Range(tm.out)
        /\ Range(tm.out) \cap SpikeRects(tm.grid) = {}

\* a rect across the top edge of the grid, on a spike tile and next to a
\* solid one: the solid tile is returned, the spike tile is not
C31_Witness ==
    /\ tm # <<>>
    /\ tm.asked
    /\ tm.rect.y < 0
    /\ tm.rect.y + tm.rect.h > 0
    /\ tm.pad_tiles = 1
    /\ tm.grid # <<>>
    /\ \E c \in TmCells :
          /\ TileAt(c) = "^"
          /\ RectsCollide(tm.rect, TileRect(c[1], c[2]))
    /\ Len(tm.out) = 1
    /\ ~tm.raised

(***************************************************************************)
(* Player._move_and_collide, under SpecM                                   *)
(***************************************************************************)
\* the solids the X pass and the Y pass of the last call collided with
HitInX ==
    {i \in DOMAIN mc.solids :
        RectsCollide([x |-> IntTrunc(mc.was.pos[1] + mc.was.vel[1] * mc.dt, PUnits.pos),
                      y |-> mc.was.rect[2], w |-> PlayerKit.w, h |-> PlayerKit.h],
                     mc.solids[i])}

\* C32: a player whose rect overlaps none of the supplied solids overlaps
\* none of them after _move_and_collide with dt <= 1/30 s, whatever the
\* order of the solids and however many of them are hit in the same pass.
C32_NoOverlapAfterMove ==
    (mc # <<>> /\ mc.called /\ ~Overlaps(mc.was, mc.solids))
        => ~Overlaps(mc.now, mc.solids)

\* a step that hits two solids in its X pass and a solid in its Y pass
C32_Witness ==
    /\ mc # <<>>
    /\ mc.called
    /\ ~Overlaps(mc.was, mc.solids)
    /\ Cardinality(HitInX) >= 2
    /\ mc.now.hit_x
    /\ mc.now.hit_y
    /\ mc.solids[1].y > mc.solids[2].y


\* C33: the charge counters stay in range in every state: for the Player
\* 0 <= jumps_left <= max_jumps - 1 and 0 <= air_dashes_left <=
\* air_dashes_max, for an Enemy 0 <= jumps_left <= max_jumps and
\* 0 <= air_dashes_left <= air_dashes_max; and no charge is taken from an
\* empty counter: a jump in the air (off the ground, the coyote time over)
\* and a dash started in the air had a counter above zero before the call
\* (an Enemy's _do_jump, on the ground too, unless the landing of the same
\* call had just given the charges back).
C33_ChargesInRange ==
    /\ pl # <<>> =>
          /\ pl.jumps_left \in 0..(PlayerKit.max_jumps - 1)
          /\ pl.air_dashes_left \in 0..PlayerKit.air_dashes_max
    /\ en # <<>> =>
          /\ en.jumps_left \in 0..EnemyKit.max_jumps
          /\ en.air_dashes_left \in 0..EnemyKit.air_dashes_max
    /\ PlayerCalled =>
          /\ (act.ev.jumped /\ ~act.was.on_ground /\ act.was.coyote <= act.args.dt)
                => act.was.jumps_left > 0
          /\ (act.ev.dash_started /\ ~act.was.on_ground)
                => act.was.air_dashes_left > 0
    /\ EnemyCalled =>
          /\ act.ev.jumped => (act.was.jumps_left > 0 \/ act.ev.stocks_reset)
          /\ (act.ev.dash_started /\ ~act.was.on_ground)
                => act.was.air_dashes_left > 0

\* an enemy in the air that spends its last jump
C33_Witness ==
    /\ EnemyCalled
    /\ ~act.was.on_ground
    /\ act.was.jumps_left = 1
    /\ act.ev.jumped
    /\ en.jumps_left = 0

\* an enemy in the air without a jump left that wants to jump and does not
C33_Refused ==
    /\ EnemyCalled
    /\ ~act.was.on_ground
    /\ act.was.jumps_left = 0
    /\ act.was.coyote_timer = 0
    /\ act.args.above_close
    /\ ~act.ev.jumped
    /\ ~act.ev.wall_jumped
    /\ en.jumps_left = 0

\* a player in the air without an air dash left that presses dash and does
\* not dash
C33_DashRefused ==
    /\ PlayerCalled
    /\ ~act.was.on_ground
    /\ act.was.air_dashes_left = 0
    /\ act.was.dash_cd = 0
    /\ ~act.was.dashing
    /\ act.args.dash_pressed
    /\ ~act.ev.dash_started


(***************************************************************************)
(* A run of Player.update calls, under SpecJ                               *)
(***************************************************************************)
\* C34: between two consecutive Player updates that end grounded, if no
\* wall jump occurs, the Player performs at most max_jumps jumps and starts
\* at most air_dashes_max dashes while airborne: at every call the jumps
\* and the air dashes counted since the last call that ended on the ground
\* are within these bounds, and the jumps done and the jumps left together
\* never exceed max_jumps.
C34_JumpBudget ==
    (run # <<>> /\ ~run.since.wall_jumped) =>
        /\ run.since.jumps <= PlayerKit.max_jumps
        /\ run.since.air_dashes <= PlayerKit.air_dashes_max
        /\ run.since.jumps + run.p.jumps_left <= PlayerKit.max_jumps

\* a player that stood for a call and jumped in the next one
C34_Witness ==
    /\ run # <<>>
    /\ run.n = 2
    /\ run.since.jumps = 1
    /\ ~run.grounded
    /\ ~run.raised
    /\ ~run.since.wall_jumped


(***************************************************************************)
(* Following the flow field, under SpecG and FairSpecG                     *)
(***************************************************************************)
\* the distance the field gives cell c
DistAt(c) == dist[c[2]][c[1]]

\* the trail of the agent is a descent of the field: every cell is a
\* walkable, reached cell of the grid, every step goes to one of the eight
\* neighbouring cells and to a strictly smaller distance, the steps taken
\* are at most the distance of the first cell, and the agent stops on the
\* target cell only
Descent ==
    walk # <<>> =>
        /\ \A i \in DOMAIN walk.trail :
              /\ InGrid(cols, rows, walk.trail[i][1], walk.trail[i][2])
              /\ ~IsBlocked(grid, walk.trail[i][1], walk.trail[i][2])
              /\ DistAt(walk.trail[i]) >= 0
        /\ \A i \in 1..(Len(walk.trail) - 1) :
              /\ DistAt(walk.trail[i + 1]) < DistAt(walk.trail[i])
              /\ Abs(walk.trail[i + 1][1] - walk.trail[i][1]) <= 1
              /\ Abs(walk.trail[i + 1][2] - walk.trail[i][2]) <= 1
        /\ Len(walk.trail) - 1 <= DistAt(walk.trail[1])
        /\ walk.stopped => walk.trail[Len(walk.trail)] = target_tile

\* the agent is on the target cell
OnTarget == walk # <<>> /\ walk.trail[Len(walk.trail)] = target_tile

\* C35: after a successful rebuild, starting from any reached cell with
\* distance d and repeatedly stepping to the neighbouring cell indicated by
\* direction_at_world reaches the target cell in at most d steps; every
\* cell visited on the way is walkable and the distance strictly decreases
\* at each step.
C35_FollowReachesTarget ==
    /\ []Descent
    /\ [](walk # <<>> => <>OnTarget)

\* an agent that has reached the target from a cell four or more away,
\* with a diagonal step on its way
C35_Witness ==
    /\ walk # <<>>
    /\ DistAt(walk.trail[1]) >= 4
    /\ walk.trail[Len(walk.trail)] = target_tile
    /\ \E i \in 1..(Len(walk.trail) - 1) :
          /\ walk.trail[i + 1][1] # walk.trail[i][1]
          /\ walk.trail[i + 1][2] # walk.trail[i][2]


(***************************************************************************)
(* The player's health, under SpecH and FairSpecH                          *)
(***************************************************************************)
\* C36: the player's health stays within 0 <= health <= max_health in every
\* state; take_damage called while hurt_timer > 0 returns False and changes
\* nothing; a take_damage that is applied removes at least 1 health and
\* starts the invulnerability window; and at the end of every Level.update
\* the player's health is > 0, a player at 0 health being respawned with
\* full health in the same frame.
C36_HealthInRange ==
    hp # <<>> =>
        /\ 0 <= hp.health
        /\ hp.health <= hp.max_health
        /\ (hp.took.called /\ hp.took.hurt_timer > 0) =>
              /\ ~hp.took.returned
              /\ hp.health = hp.took.health
              /\ hp.hurt_timer = hp.took.hurt_timer
        /\ (hp.took.called /\ hp.took.hurt_timer <= 0) =>
              /\ hp.took.returned
              /\ hp.health <= hp.took.health - 1
              /\ hp.hurt_timer > 0
        /\ hp.ended =>
              /\ hp.health > 0
              /\ hp.healed => hp.health = hp.max_health /\ hp.hurt_timer = 0

\* the end of a frame in which the spikes took the player's last health and
\* the player was respawned with full health
C36_Witness ==
    /\ hp # <<>>
    /\ hp.ended
    /\ hp.healed
    /\ hp.health = hp.max_health
    /\ hp.max_health > AbMaxHealth(NoStacks)

\* a take_damage refused within the invulnerability window
C36_Refused ==
    /\ hp # <<>>
    /\ hp.took.called
    /\ ~hp.took.returned
    /\ hp.health < hp.max_health


\* the player holds a regen stack and is hurt but alive
RegenCase ==
    /\ hp # <<>>
    /\ hp.stacks["regen"] >= 1
    /\ 0 < hp.health
    /\ hp.health < hp.max_health

\* what ends the case: full health, a take_damage that is applied, or a
\* Player.update that raised
RegenDone ==
    /\ hp # <<>>
    /\ \/ hp.health = hp.max_health
       \/ hp.took.called /\ hp.took.returned
       \/ pc = "h_raised"

\* C37: health regeneration makes progress: when the player holds at least
\* one 'regen' stack and 0 < health < max_health, and no damage is taken,
\* repeated Player.update calls (dt <= 1/30) eventually raise health, which
\* reaches max_health.
C37_RegenReachesMax == [](RegenCase => <>RegenDone)


(***************************************************************************)
(* WaveManager, under SpecW                                                *)
(***************************************************************************)
\* C38: WaveManager.update returns True only on a call that moves the
\* manager from inactive to active after its timer has run out, so at most
\* once per wave; between two True returns there is a call with
\* alive_enemy_count <= 0 that ends the active wave, restarts the cooldown
\* timer and increases wave_index by exactly 1; wave_index never decreases
\* and never exceeds len(wave_defs); and once is_finished() holds every
\* later update returns False and changes no state.
C38_WaveManagerUpdate ==
    wave # <<>> =>
        /\ 0 <= wave.wave_index
        /\ wave.wave_index <= wave.n
        /\ wave.trues <= wave.wave_index + 1
        /\ wave.trues <= wave.n
        /\ wave.called =>
              /\ wave.wave_index >= wave.was.wave_index
              /\ wave.returned =>
                    /\ ~wave.was.active
                    /\ wave.active
                    /\ wave.was.timer - wave.dt <= 0
                    /\ wave.wave_index = wave.was.wave_index
                    /\ wave.trues >= 2 => wave.ended_before
              /\ wave.wave_index # wave.was.wave_index =>
                    /\ wave.was.active
                    /\ wave.alive <= 0
                    /\ ~wave.active
                    /\ wave.timer = WaveCooldown
                    /\ wave.wave_index = wave.was.wave_index + 1
                    /\ ~wave.returned
              /\ wave.was.wave_index >= wave.n =>
                    /\ ~wave.returned
                    /\ WaveFields(wave) = wave.was

\* the second True return of a manager with two waves
C38_Witness ==
    /\ wave # <<>>
    /\ wave.called
    /\ wave.returned
    /\ wave.trues = 2
    /\ wave.wave_index = 1
    /\ wave.ended_before

\* an update of a finished manager
C38_Finished ==
    /\ wave # <<>>
    /\ wave.called
    /\ wave.n > 0
    /\ wave.was.wave_index >= wave.n
    /\ ~wave.returned

====
